---- MODULE Spec2Model ----
(***************************************************************************)
(* gravity-wars: the game state (entities, players, turn), the missile     *)
(* integrator and the turn machine.                                        *)
(*                                                                         *)
(* Numbers.  An f32 of the program is an IEEE-754 binary32 value, kept as  *)
(* its sign, mantissa and exponent; sums, differences, products, quotients *)
(* and square roots are rounded to nearest, ties to even, as the f32       *)
(* operations round them (the sign of a zero is not kept).  A position, a  *)
(* velocity and a gravity are Vector3<f32> values.  The inputs are         *)
(* written in hundredths of a length unit and converted to the nearest     *)
(* binary32 value; the finite firing angles are 0 and the f32 nearest to   *)
(* pi, whose cosine and sine are given as the f32 values they round to.    *)
(***************************************************************************)
EXTENDS Integers, Sequences, FiniteSets, TLC

VARIABLES
    entities,        \* GameState.entities
    players,         \* GameState.players
    current_player,  \* GameState.current_player
    camera,          \* GameState.camera (position, log_scale)
    last,            \* the last call on GameState and what it returned
    ticks,           \* number of update_missiles calls so far
    phase,           \* turn machine: the GamePhase
    fleet,           \* turn machine: the entities (a planet and the ships)
    resolved,        \* turn machine: the last transition and what it started from
    the_trail,       \* integrator: the MissileTrail being updated
    the_others,      \* integrator: the other entities, as <<index, entity>>
    the_event,       \* integrator: what the last update returned
    trail_before,    \* integrator: the trail before the last update
    event_log,       \* integrator: what every update so far returned, positions added
    idle_updates,    \* integrator: number of updates of the trail since it ended
    mapgen,          \* map generator: how far generate_map is, and its result
    probe,           \* gravity: an attractor, a point and the gravity computed there
    input_queue,     \* host: GameHandle.input_queue
    loader           \* host: the AssetLoaderData, its fetches and the calls of its callback

gameVars == <<entities, players, current_player, camera, last, ticks>>
turnVars == <<phase, fleet, resolved>>
missileVars == <<the_trail, the_others, the_event, trail_before, event_log, idle_updates>>
mapVars == <<mapgen>>
probeVars == <<probe>>
hostVars == <<input_queue, loader>>

vars == <<entities, players, current_player, camera, last, ticks,
          phase, fleet, resolved,
          the_trail, the_others, the_event, trail_before, event_log, idle_updates,
          mapgen, probe, input_queue, loader>>

-----------------------------------------------------------------------------
(* Bounds of the model *)

MaxPlayers == 2
MaxMissiles == 2
MaxTicks == 2
MaxCamera == 2
MaxTurnPlayers == 3
MaxIdle == 2
MaxAdded == 1
MaxUpdatesBeforeAdd == 1
MaxPlanets == 2
MaxMapPlayers == 2
MaxRemaining == 2
MaxQueue == 2
MaxLoads == 3

-----------------------------------------------------------------------------
(* Option<T> *)

None == <<>>
Some(x) == <<x>>
IsSome(o) == o # <<>>
Unwrap(o) == o[1]

Abs(x) == IF x < 0 THEN -x ELSE x
Sign(x) == IF x < 0 THEN -1 ELSE IF x > 0 THEN 1 ELSE 0

\* The powers of two below 2^31
PowersOf2 ==
    <<1, 2, 4, 8, 16, 32, 64, 128, 256, 512, 1024, 2048, 4096, 8192, 16384, 32768,
      65536, 131072, 262144, 524288, 1048576, 2097152, 4194304, 8388608, 16777216,
      33554432, 67108864, 134217728, 268435456, 536870912, 1073741824>>
Pow2(n) == IF n <= 0 THEN 1 ELSE PowersOf2[n + 1]

-----------------------------------------------------------------------------
(* Constants of the program *)

TICKS_PER_SECOND == 30
MISSILE_MAX_VELOCITY == 10
MISSILE_VELOCITY_SCALE == 10
\* hundredths per length unit: 0.01 is the clearance step of fire_missile
LengthScale == 100
\* radius of the default ship shape, Ball::new(0.5), in hundredths
ShipRadius == 50

-----------------------------------------------------------------------------
(* binary32 values: [s |-> sign, m |-> mantissa, e |-> exponent], the value *)
(* s * m * 2^e.  Zero has s = 0; a normal value has 2^23 <= m < 2^24 and    *)
(* -149 <= e <= 104; a subnormal value has 0 < m < 2^23 and e = -149; an   *)
(* infinity has s = 1 or -1 and m = 0; NaN has s = 2.                      *)

F32Zero == [s |-> 0, m |-> 0, e |-> 0]
F32NaN == [s |-> 2, m |-> 0, e |-> 0]
F32Inf(s) == [s |-> s, m |-> 0, e |-> 0]

F32IsNaN(a) == a.s = 2
F32IsInf(a) == a.m = 0 /\ (a.s = 1 \/ a.s = -1)

\* The value (i + f / d) * 2^e for e < -149 and i < 2^24: a subnormal value,
\* the nearest multiple of 2^-149, ties to even
F32Denormal(i, f, e) ==
    IF -149 - e > 24 THEN F32Zero
    ELSE LET k == -149 - e
             q == i \div Pow2(k)
             r == i % Pow2(k)
             half == Pow2(k - 1)
             up == r > half \/ (r = half /\ (f > 0 \/ q % 2 = 1))
             m == IF up THEN q + 1 ELSE q
         IN IF m = 0 THEN F32Zero ELSE [s |-> 1, m |-> m, e |-> -149]

RECURSIVE F32Normalize(_, _, _, _)
\* The value (i + f / d) * 2^e, 0 <= f < d, rounded to nearest, ties to even:
\* i is brought into 2^23 .. 2^24 - 1 by 16, 4 or 1 binary places at a time.
F32Normalize(i, f, d, e) ==
    IF i = 0 /\ f = 0 THEN F32Zero
    ELSE IF i < 128 /\ d <= 32768 /\ e > -133
    THEN F32Normalize(65536 * i + (65536 * f) \div d, (65536 * f) % d, d, e - 16)
    ELSE IF i < 524288 /\ d <= 134217728 /\ e > -145
    THEN F32Normalize(16 * i + (16 * f) \div d, (16 * f) % d, d, e - 4)
    ELSE IF i < 8388608 /\ e > -149
    THEN F32Normalize(2 * i + (IF 2 * f >= d THEN 1 ELSE 0), (2 * f) % d, d, e - 1)
    ELSE IF i >= 16777216
    THEN F32Normalize(i \div 2, (i % 2) * d + f, 2 * d, e + 1)
    ELSE IF e < -149 THEN F32Denormal(i, f, e)
    ELSE LET up == 2 * f > d \/ (2 * f = d /\ i % 2 = 1)
             r == IF up THEN i + 1 ELSE i
         IN IF r = 0 THEN F32Zero
            ELSE IF r = 16777216
            THEN (IF e >= 104 THEN F32Inf(1) ELSE [s |-> 1, m |-> 8388608, e |-> e + 1])
            ELSE IF e > 104 THEN F32Inf(1)
            ELSE [s |-> 1, m |-> r, e |-> e]

\* p / q for integers p >= 0, q > 0 with p / q < 2^7, correctly rounded
F32FromRatio(p, q) == F32Normalize(p \div q, p % q, q, 0)

\* a > 0.0 and a <= 0.0: both are false of NaN
F32IsPos(a) == a.s = 1
F32LeZero(a) == a.s = 0 \/ a.s = -1

\* |a| < |b| for a, b that are neither zero nor NaN
F32LessPos(a, b) ==
    IF a.m = 0 THEN FALSE
    ELSE IF b.m = 0 THEN TRUE
    ELSE a.e < b.e \/ (a.e = b.e /\ a.m < b.m)

\* a < b and a <= b as f32 compares: false when either is NaN
F32Less(a, b) ==
    /\ a.s # 2
    /\ b.s # 2
    /\ IF a.s # b.s THEN a.s < b.s
       ELSE IF a.s = 0 THEN FALSE
       ELSE IF a.s = 1 THEN F32LessPos(a, b)
       ELSE F32LessPos(b, a)

F32Le(a, b) == a.s # 2 /\ b.s # 2 /\ ~F32Less(b, a)

\* The greatest difference of exponents at which the smaller operand still
\* counts: below a quarter of the last place the result is the larger operand
F32Reach == 26

\* a - b for finite a >= b > 0
F32SubOrdered(a, b) ==
    IF a.e - b.e > F32Reach THEN a
    ELSE LET d == Pow2(a.e - b.e)
             q == b.m \div d
             r == b.m % d
         IN IF r = 0 THEN F32Normalize(a.m - q, 0, d, a.e)
            ELSE F32Normalize(a.m - q - 1, d - r, d, a.e)

\* a + b for finite a >= b > 0
F32AddOrdered(a, b) ==
    IF a.e - b.e > F32Reach THEN a
    ELSE LET d == Pow2(a.e - b.e)
         IN F32Normalize(a.m + b.m \div d, b.m % d, d, a.e)

F32Neg(a) == IF a.s = 2 THEN a ELSE [a EXCEPT !.s = -a.s]

\* The value a >= 0 with the sign s
F32Signed(s, a) == IF a.s = 0 THEN F32Zero ELSE [a EXCEPT !.s = s]

\* a + b
F32Add(a, b) ==
    IF a.s = 2 \/ b.s = 2 THEN F32NaN
    ELSE IF a.s = 0 THEN b
    ELSE IF b.s = 0 THEN a
    ELSE IF a.m = 0 THEN (IF b.m = 0 /\ b.s # a.s THEN F32NaN ELSE a)
    ELSE IF b.m = 0 THEN b
    ELSE LET a_less == F32LessPos(a, b)
             big == IF a_less THEN b ELSE a
             small == IF a_less THEN a ELSE b
         IN IF a.s = b.s THEN F32Signed(big.s, F32AddOrdered(big, small))
            ELSE IF big.m = small.m /\ big.e = small.e THEN F32Zero
            ELSE F32Signed(big.s, F32SubOrdered(big, small))

\* a - b
F32Sub(a, b) == F32Add(a, F32Neg(b))

\* a * b: the 48-bit product of the mantissas from their 12-bit halves
F32Mul(a, b) ==
    IF a.s = 2 \/ b.s = 2 THEN F32NaN
    ELSE IF a.s = 0 \/ b.s = 0
    THEN (IF F32IsInf(a) \/ F32IsInf(b) THEN F32NaN ELSE F32Zero)
    ELSE IF a.m = 0 \/ b.m = 0 THEN F32Inf(a.s * b.s)
    ELSE LET ah == a.m \div 4096
             al == a.m % 4096
             bh == b.m \div 4096
             bl == b.m % 4096
             mid == ah * bl + al * bh
             low == (mid % 4096) * 4096 + al * bl
             hi == ah * bh + mid \div 4096 + low \div 16777216
         IN F32Signed(a.s * b.s, F32Normalize(hi, low % 16777216, 16777216, a.e + b.e + 24))

\* a / b; the zero of a divisor is +0.0 (the divisors of the program are
\* norms and squares of norms)
F32Div(a, b) ==
    IF a.s = 2 \/ b.s = 2 THEN F32NaN
    ELSE IF b.s = 0 THEN (IF a.s = 0 THEN F32NaN ELSE F32Inf(a.s))
    ELSE IF a.s = 0 THEN F32Zero
    ELSE IF a.m = 0 THEN (IF b.m = 0 THEN F32NaN ELSE F32Inf(a.s * b.s))
    ELSE IF b.m = 0 THEN F32Zero
    ELSE F32Signed(a.s * b.s, F32Normalize(a.m \div b.m, a.m % b.m, b.m, a.e - b.e))

RECURSIVE F32SqrtDigits(_, _, _, _)
\* The square root of m * 2^26 digit by digit, from the k-th pair of binary
\* digits down: <<the whole part of the root, the remainder>>
F32SqrtDigits(root, rem, m, k) ==
    IF k < 0 THEN <<root, rem>>
    ELSE LET pair == IF k >= 13 THEN (m \div Pow2(2 * k - 26)) % 4 ELSE 0
             rest == 4 * rem + pair
             trial == 4 * root + 1
         IN IF rest >= trial THEN F32SqrtDigits(2 * root + 1, rest - trial, m, k - 1)
            ELSE F32SqrtDigits(2 * root, rest, m, k - 1)

RECURSIVE F32Sqrt(_)
\* a.sqrt(), correctly rounded: the mantissa is given an even exponent, and
\* a remainder that is not zero counts as a quarter of the last digit
F32Sqrt(a) ==
    IF a.s = 2 \/ a.s = -1 THEN F32NaN
    ELSE IF a.s = 0 \/ a.m = 0 THEN a
    ELSE IF a.m < 8388608 THEN F32Sqrt([a EXCEPT !.m = 4 * @, !.e = @ - 2])
    ELSE LET odd == a.e % 2 = 1
             m == IF odd THEN 2 * a.m ELSE a.m
             e == IF odd THEN a.e - 1 ELSE a.e
             digits == F32SqrtDigits(0, 0, m, 25)
         IN F32Normalize(digits[1], IF digits[2] > 0 THEN 1 ELSE 0, 4, e \div 2 - 13)

\* The binary32 value nearest to n * 2^k for an integer n
F32OfInt(n, k) ==
    IF n = 0 THEN F32Zero ELSE F32Signed(Sign(n), F32Normalize(Abs(n), 0, 1, k))

\* The binary32 value nearest to x / 100: a length of x hundredths
F32OfGrid(x) ==
    IF x = 0 THEN F32Zero ELSE F32Signed(Sign(x), F32FromRatio(Abs(x), 100))

\* The whole number of hundredths nearest to a finite a, |a| < 2^24 / 100
F32ToGrid(a) ==
    IF a.s = 0 \/ a.e < -31 THEN 0
    ELSE IF a.e = -31 THEN (IF a.m * 100 >= Pow2(30) THEN a.s ELSE 0)
    ELSE IF a.e >= 0 THEN a.s * a.m * 100 * Pow2(a.e)
    ELSE LET d == Pow2(-a.e)
             q == (a.m * 100) \div d
             r == (a.m * 100) % d
         IN a.s * (IF r >= d - r THEN q + 1 ELSE q)

\* TICK_INTERVAL = 1.0 / (TICKS_PER_SECOND as f32)
TICK_INTERVAL == F32Div(F32OfInt(1, 0), F32OfInt(TICKS_PER_SECOND, 0))
MISSILE_TIME_TO_LIVE == F32OfInt(30, 0)
\* 5e-10 as f32: 0x3009705f, 9007199 * 2^-54
GRAVITATIONAL_CONSTANT == [s |-> 1, m |-> 9007199, e |-> -54]
\* std::f32::consts::PI: 0x40490fdb, 13176795 * 2^-22
PI == [s |-> 1, m |-> 13176795, e |-> -22]
\* std::f32::EPSILON: 2^-23
EPSILON == F32OfInt(1, -23)

-----------------------------------------------------------------------------
(* f32 inputs of a fire command: finite (an integer here), NaN or +-inf *)

Fin(v) == [k |-> "fin", v |-> v]
NaN == [k |-> "nan", v |-> 0]
PosInf == [k |-> "inf", v |-> 1]
NegInf == [k |-> "inf", v |-> -1]

is_finite(a) == a.k = "fin"

\* a < b as IEEE comparison: false when either is NaN
FLess(a, b) ==
    /\ a.k # "nan"
    /\ b.k # "nan"
    /\ CASE a.k = "inf" /\ a.v < 0 -> ~(b.k = "inf" /\ b.v < 0)
         [] a.k = "inf" -> FALSE
         [] b.k = "inf" -> b.v > 0
         [] OTHER -> a.v < b.v

-----------------------------------------------------------------------------
(* Vector3<f32>: [x |-> f32, y |-> f32, z |-> f32] *)

Vec3(x, y, z) == [x |-> x, y |-> y, z |-> z]

\* The point of the x axis at x hundredths, and the point of the plane z = 0.0
\* at (x, y) hundredths
Vec(x) == Vec3(F32OfGrid(x), F32Zero, F32Zero)
Vec2(x, y) == Vec3(F32OfGrid(x), F32OfGrid(y), F32Zero)
NaNVec == Vec3(F32NaN, F32NaN, F32NaN)

VAdd(a, b) == Vec3(F32Add(a.x, b.x), F32Add(a.y, b.y), F32Add(a.z, b.z))
VSub(a, b) == Vec3(F32Sub(a.x, b.x), F32Sub(a.y, b.y), F32Sub(a.z, b.z))

\* a * k and a / k for a scalar k
VScale(a, k) == Vec3(F32Mul(a.x, k), F32Mul(a.y, k), F32Mul(a.z, k))
VUnscale(a, k) == Vec3(F32Div(a.x, k), F32Div(a.y, k), F32Div(a.z, k))

\* a.xy(): the Vector2 of x and y, kept as the vector with z = 0.0, which adds
\* 0.0 to its products and squares
xy(a) == Vec3(a.x, a.y, F32Zero)

\* a.dot(b): the products of the components, summed from the first
dot(a, b) == F32Add(F32Add(F32Mul(a.x, b.x), F32Mul(a.y, b.y)), F32Mul(a.z, b.z))

magnitude_squared(a) == dot(a, a)

\* a.normalize(): a / a.norm(), which is NaN in every component for the
\* zero vector
normalize(a) == VUnscale(a, F32Sqrt(magnitude_squared(a)))

-----------------------------------------------------------------------------
(* Entities (state/entity/mod.rs) *)

ShipActive == "Active"
ShipDisabled == "Disabled"

\* Entity::new has mass: 0.0
NoMass == F32Zero

\* collision_shape is None or Some(the radius of a Ball)
Entity_new(position) ==
    [position |-> position, mass |-> NoMass, collision_shape |-> None,
     missile_trail |-> None, ship |-> None]

Ship_new(player_id) == [player_id |-> player_id, state |-> ShipActive]

\* A gravity that falls with the square of the distance
gravity_at_inverse_square(e, pos) ==
    LET difference == VSub(e.position, pos)
        strength == F32Div(F32Mul(e.mass, GRAVITATIONAL_CONSTANT),
                           magnitude_squared(difference))
    IN VScale(normalize(difference), strength)

\* Gravitational acceleration produced by entity e on a mass at pos:
\* difference.normalize() * (difference.magnitude_squared() * mass * G)
gravity_at(e, pos) ==
    LET difference == VSub(e.position, pos)
        strength == F32Mul(F32Mul(magnitude_squared(difference), e.mass),
                           GRAVITATIONAL_CONSTANT)
    IN VScale(normalize(difference), strength)

\* Ray against a ball (the shape's toi_with_ray before max_toi is applied):
\* the least t >= 0 with |origin + t * dir - center| = radius, from
\* a t^2 + 2 b t + c = 0; from inside a solid ball it is 0.0, from inside a
\* hollow one the time of the exit
ball_toi_with_ray(center, radius, origin, dir, solid) ==
    LET first(a, b, root, t) ==
            IF F32LeZero(t)
            THEN IF solid THEN Some(F32Zero)
                 ELSE Some(F32Div(F32Add(F32Neg(b), root), a))
            ELSE Some(t)
        roots(a, b, root) == first(a, b, root, F32Div(F32Sub(F32Neg(b), root), a))
        solve(a, b, c, delta) ==
            IF F32IsPos(c) /\ F32IsPos(b) THEN None
            ELSE IF delta.s = -1 THEN None
            ELSE roots(a, b, F32Sqrt(delta))
        quadratic(a, b, c) == solve(a, b, c, F32Sub(F32Mul(b, b), F32Mul(a, c)))
        from(dcenter) ==
            quadratic(magnitude_squared(dir), dot(dcenter, dir),
                      F32Sub(magnitude_squared(dcenter), F32Mul(radius, radius)))
    IN from(VSub(origin, center))

\* Entity::ray_time_to_collision: the time of impact, if at most max_time.
\* The ball is centred at collision_transform(), the entity's position.xy()
ray_time_to_collision(e, origin, dir, max_time, solid) ==
    IF ~IsSome(e.collision_shape) THEN None
    ELSE LET within(toi) ==
                 IF IsSome(toi) /\ F32Le(Unwrap(toi), max_time) THEN toi ELSE None
         IN within(ball_toi_with_ray(xy(e.position), Unwrap(e.collision_shape),
                                     origin, dir, solid))

Last(seq) == seq[Len(seq)]

-----------------------------------------------------------------------------
(* MissileTrail (state/entity/missile.rs) *)

MissileTrail_new(player_id, position, velocity) ==
    [player_id |-> player_id, time_to_live |-> MISSILE_TIME_TO_LIVE,
     velocity |-> velocity, positions |-> <<position>>, data_version |-> 0]

\* An add_position that pushes the position and leaves data_version alone
add_position_stale(trail, position) ==
    [trail EXCEPT !.positions = Append(@, position)]

add_position(trail, position) ==
    [trail EXCEPT !.data_version = @ + 1, !.positions = Append(@, position)]

time_to_collision(trail, entity, solid) ==
    IF trail.positions = <<>> THEN None
    ELSE LET pos == Last(trail.positions)
             velocity == xy(trail.velocity)
         IN IF F32IsPos(magnitude_squared(velocity))
            THEN ray_time_to_collision(entity, xy(pos), velocity, TICK_INTERVAL, solid)
            ELSE None

EventExpired == [kind |-> "Expired", entity |-> 0]
EventHitEntity(i) == [kind |-> "HitEntity", entity |-> i]

RECURSIVE update_loop_gravity_first(_, _, _, _)
\* A loop that adds an entity's gravity before it tests the entity
update_loop_gravity_first(trail, last_pos, others, k) ==
    IF k > Len(others)
    THEN LET moved == add_position(trail, VAdd(last_pos, VScale(trail.velocity, TICK_INTERVAL)))
         IN <<moved, IF F32LeZero(moved.time_to_live) THEN Some(EventExpired) ELSE None>>
    ELSE LET i == others[k][1]
             other == others[k][2]
             pulled == [trail EXCEPT !.velocity = VAdd(@, gravity_at(other, last_pos))]
             toi == time_to_collision(pulled, other, TRUE)
         IN IF IsSome(toi)
            THEN <<add_position([pulled EXCEPT !.time_to_live = F32Zero],
                                VAdd(last_pos, VScale(pulled.velocity, Unwrap(toi)))),
                   Some(EventHitEntity(i))>>
            ELSE update_loop_gravity_first(pulled, last_pos, others, k + 1)

RECURSIVE update_loop(_, _, _, _)
\* The loop over the other entities, from the k-th; others is a sequence of
\* <<index, entity>>.  The result is <<trail, event>>.
update_loop(trail, last_pos, others, k) ==
    IF k > Len(others)
    THEN <<add_position(trail, VAdd(last_pos, VScale(trail.velocity, TICK_INTERVAL))),
           IF F32LeZero(trail.time_to_live) THEN Some(EventExpired) ELSE None>>
    ELSE LET i == others[k][1]
             other == others[k][2]
             tested(toi) ==
                 IF IsSome(toi)
                 THEN <<add_position([trail EXCEPT !.time_to_live = F32Zero],
                                     VAdd(last_pos, VScale(trail.velocity, Unwrap(toi)))),
                        Some(EventHitEntity(i))>>
                 ELSE update_loop(
                          [trail EXCEPT !.velocity = VAdd(@, gravity_at(other, last_pos))],
                          last_pos, others, k + 1)
         IN tested(time_to_collision(trail, other, TRUE))

\* An update that does not look at time_to_live before it integrates
update_ended_too(trail, other_entities) ==
    IF trail.positions = <<>>
    THEN <<trail, None>>
    ELSE update_loop([trail EXCEPT !.time_to_live = F32Sub(@, TICK_INTERVAL)],
                     Last(trail.positions), other_entities, 1)

\* An update that lets a trail whose time has run out expire before it tests
\* the other entities
update_expiring_first(trail, other_entities) ==
    IF F32LeZero(trail.time_to_live) THEN <<trail, None>>
    ELSE IF trail.positions = <<>>
    THEN <<trail, None>>
    ELSE LET ticked == [trail EXCEPT !.time_to_live = F32Sub(@, TICK_INTERVAL)]
         IN IF F32LeZero(ticked.time_to_live)
            THEN update_loop(ticked, Last(trail.positions), <<>>, 1)
            ELSE update_loop(ticked, Last(trail.positions), other_entities, 1)

\* MissileTrail::update: <<the trail afterwards, the event returned>>
update(trail, other_entities) ==
    IF F32LeZero(trail.time_to_live) THEN <<trail, None>>
    ELSE IF trail.positions = <<>>
    THEN <<trail, None>>
    ELSE update_loop([trail EXCEPT !.time_to_live = F32Sub(@, TICK_INTERVAL)],
                     Last(trail.positions), other_entities, 1)

-----------------------------------------------------------------------------
(* GameState (state/mod.rs) *)

\* MissileTrail::time_to_collision of state/mod.rs: no maximal time
state_time_to_collision(trail, entity, solid) ==
    IF trail.positions # <<>> /\ IsSome(entity.collision_shape)
    THEN LET pos == Last(trail.positions)
             velocity == xy(trail.velocity)
         IN IF F32IsPos(magnitude_squared(velocity))
            THEN ball_toi_with_ray(xy(entity.position), Unwrap(entity.collision_shape),
                                   xy(pos), velocity, solid)
            ELSE None
    ELSE None

\* The first entity that is the current player's ship
get_ship(ents, current) ==
    IF IsSome(current)
    THEN LET id == Unwrap(current)
             found == {i \in 1..Len(ents) :
                          IsSome(ents[i].ship) /\ Unwrap(ents[i].ship).player_id = id}
         IN IF found = {} THEN None
            ELSE Some(ents[CHOOSE i \in found : \A j \in found : i <= j])
    ELSE None

SetMin(S) == CHOOSE x \in S : \A y \in S : x <= y

\* GameState::next_player: the new current_player
next_player(ents, num_players, current) ==
    IF num_players = 0 THEN None
    ELSE LET next == IF IsSome(current) THEN (Unwrap(current) + 1) % num_players ELSE 0
             skips == {(Unwrap(ents[i].ship).player_id + num_players - next) % num_players :
                          i \in {j \in 1..Len(ents) :
                                    IsSome(ents[j].ship)
                                    /\ Unwrap(ents[j].ship).player_id < num_players}}
         IN IF skips = {} THEN None ELSE Some(next + SetMin(skips))

RECURSIVE clear_ship(_, _, _)
\* The loop of fire_missile that moves the first position of the trail past the
\* ship's own collision shape: while it is within the radius and the ray meets
\* the shape, by velocity * collision + velocity.normalize() * 0.01
clear_ship(trail, ship, radius) ==
    LET offset == VSub(trail.positions[1], ship.position)
        walk(collision) ==
            IF IsSome(collision)
            THEN clear_ship(
                     [trail EXCEPT !.positions[1] =
                         VAdd(@, VAdd(VScale(trail.velocity, Unwrap(collision)),
                                      VScale(normalize(trail.velocity),
                                             F32FromRatio(1, 100))))],
                     ship, radius)
            ELSE trail
    IN IF F32Less(magnitude_squared(offset), F32Mul(radius, radius))
       THEN walk(state_time_to_collision(trail, ship, FALSE))
       ELSE trail

\* The f32 of a parameter of a fire command
F32OfParam(p) ==
    IF p.k = "nan" THEN F32NaN
    ELSE IF p.k = "inf" THEN F32Inf(p.v)
    ELSE F32OfInt(p.v, 0)

\* The finite angles of the fire commands are Fin(0), 0.0, and Fin(1), the f32
\* PI.  angle.cos() is 1.0 and -1.0; angle.sin() is 0.0 and
\* -8.742278e-8 = -12303662 * 2^-47, the sine of the f32 nearest to pi
Cos(angle) == IF angle.v = 0 THEN F32OfInt(1, 0) ELSE F32OfInt(-1, 0)
Sin(angle) == IF angle.v = 0 THEN F32Zero ELSE [s |-> -1, m |-> 12303662, e |-> -47]

\* speed * direction for speed = params.speed * MISSILE_VELOCITY_SCALE and
\* direction = (angle.cos(), angle.sin(), 0.0)
missile_velocity(params) ==
    LET speed == F32Mul(F32OfParam(params.speed), F32OfInt(MISSILE_VELOCITY_SCALE, 0))
        direction == Vec3(Cos(params.angle), Sin(params.angle), F32Zero)
    IN VScale(direction, speed)

ErrNoShip == "NoShipToFireMissile"
ErrAngle == "InvalidMissileAngle"
ErrSpeed == "InvalidMissileSpeed"
Ok == "Ok"

\* fire_missile once the parameters are accepted and the ship is found: the
\* missile is built, pushed, and the turn passes on
launch(ents, num_players, current, params, ship) ==
    LET trail0 == [time_to_live |-> MISSILE_TIME_TO_LIVE,
                   velocity |-> missile_velocity(params),
                   positions |-> <<ship.position>>,
                   data_version |-> 0]
        trail == IF IsSome(ship.collision_shape)
                 THEN clear_ship(trail0, ship, Unwrap(ship.collision_shape))
                 ELSE trail0
        missile == [Entity_new(ship.position) EXCEPT !.missile_trail = Some(trail)]
        done(pushed) ==
            [result |-> Ok, entities |-> pushed,
             current_player |-> next_player(pushed, num_players, current)]
    IN done(Append(ents, missile))

\* A fire_missile that looks at the speed only after it has pushed the missile
fire_missile_validating_late(ents, num_players, current, params) ==
    LET unchanged(err) == [result |-> err, entities |-> ents, current_player |-> current]
    IN IF ~is_finite(params.angle) THEN unchanged(ErrAngle)
       ELSE LET found == get_ship(ents, current)
            IN IF ~IsSome(found) THEN unchanged(ErrNoShip)
               ELSE LET done == launch(ents, num_players, current, params, Unwrap(found))
                    IN IF FLess(params.speed, Fin(0))
                          \/ FLess(Fin(MISSILE_MAX_VELOCITY), params.speed)
                       THEN [done EXCEPT !.result = ErrSpeed]
                       ELSE done

\* GameState::fire_missile: [result, entities, current_player] afterwards
fire_missile(ents, num_players, current, params) ==
    LET unchanged(err) == [result |-> err, entities |-> ents, current_player |-> current]
    IN IF ~is_finite(params.angle) THEN unchanged(ErrAngle)
       ELSE IF FLess(params.speed, Fin(0)) \/ FLess(Fin(MISSILE_MAX_VELOCITY), params.speed)
       THEN unchanged(ErrSpeed)
       ELSE LET found == get_ship(ents, current)
            IN IF ~IsSome(found) THEN unchanged(ErrNoShip)
               ELSE launch(ents, num_players, current, params, Unwrap(found))

RECURSIVE update_missile_loop(_, _, _, _)
\* The loop of GameState::update_missile; a time of impact counts when it is
\* at most TICK_INTERVAL
update_missile_loop(missile, last_pos, others, k) ==
    IF k > Len(others)
    THEN add_position(missile, VAdd(last_pos, VScale(missile.velocity, TICK_INTERVAL)))
    ELSE LET other == others[k]
             tested(toi) ==
                 IF IsSome(toi) /\ F32Le(Unwrap(toi), TICK_INTERVAL)
                 THEN add_position([missile EXCEPT !.time_to_live = F32Zero],
                                   VAdd(last_pos, VScale(missile.velocity, Unwrap(toi))))
                 ELSE update_missile_loop(
                          [missile EXCEPT !.velocity = VAdd(@, gravity_at(other, last_pos))],
                          last_pos, others, k + 1)
         IN tested(state_time_to_collision(missile, other, TRUE))

\* An update_missile that does not take the tick off time_to_live
update_missile_ageless(missile, others) ==
    IF F32LeZero(missile.time_to_live) THEN missile
    ELSE IF missile.positions = <<>> THEN missile
    ELSE update_missile_loop(missile, Last(missile.positions), others, 1)

\* GameState::update_missile
update_missile(missile, others) ==
    IF F32LeZero(missile.time_to_live) THEN missile
    ELSE IF missile.positions = <<>> THEN missile
    ELSE update_missile_loop([missile EXCEPT !.time_to_live = F32Sub(@, TICK_INTERVAL)],
                             Last(missile.positions), others, 1)

\* The entities other than the i-th, in collection order
Others(ents, i) == SubSeq(ents, 1, i - 1) \o SubSeq(ents, i + 1, Len(ents))

RECURSIVE update_missiles_from_leaving_ended(_, _)
\* An update_missiles that moves an entity only while its missile is live
update_missiles_from_leaving_ended(ents, i) ==
    IF i > Len(ents) THEN ents
    ELSE IF IsSome(ents[i].missile_trail)
    THEN LET missile == update_missile(Unwrap(ents[i].missile_trail), Others(ents, i))
             moved == [ents[i] EXCEPT
                          !.missile_trail = Some(missile),
                          !.position = IF F32IsPos(missile.time_to_live)
                                       THEN Last(missile.positions) ELSE @]
         IN update_missiles_from_leaving_ended([ents EXCEPT ![i] = moved], i + 1)
    ELSE update_missiles_from_leaving_ended(ents, i + 1)

RECURSIVE update_missiles_from(_, _)
\* GameState::update_missiles, from the i-th entity on
update_missiles_from(ents, i) ==
    IF i > Len(ents) THEN ents
    ELSE IF IsSome(ents[i].missile_trail)
    THEN LET moved(missile) ==
                 [ents[i] EXCEPT
                     !.missile_trail = Some(missile),
                     !.position = IF missile.positions # <<>>
                                  THEN Last(missile.positions) ELSE @]
         IN update_missiles_from(
                [ents EXCEPT ![i] = moved(update_missile(Unwrap(ents[i].missile_trail),
                                                         Others(ents, i)))],
                i + 1)
    ELSE update_missiles_from(ents, i + 1)

\* An update_missiles that takes the missiles that have ended out of the game
update_missiles_dropping_ended(ents) ==
    SelectSeq(update_missiles_from(ents, 1),
              LAMBDA e : ~IsSome(e.missile_trail)
                         \/ F32IsPos(Unwrap(e.missile_trail).time_to_live))

update_missiles(ents) == update_missiles_from(ents, 1)

\* A handle_input that passes the turn on after a camera event
handle_input_passing_the_turn(ents, num_players, current, cam, event) ==
    CASE event.kind = "PanCamera" ->
             [result |-> Ok, entities |-> ents,
              current_player |-> next_player(ents, num_players, current),
              camera |-> [cam EXCEPT !.position =
                             <<@[1] + event.delta[1], @[2] + event.delta[2], @[3]>>]]
      [] event.kind = "ZoomCamera" ->
             [result |-> Ok, entities |-> ents,
              current_player |-> next_player(ents, num_players, current),
              camera |-> [cam EXCEPT !.log_scale = @ + event.scale]]
      [] event.kind = "FireMissile" ->
             LET fired == fire_missile(ents, num_players, current, event.params)
             IN [result |-> fired.result, entities |-> fired.entities,
                 current_player |-> fired.current_player, camera |-> cam]

\* GameState::handle_input: [result, entities, current_player, camera] afterwards
handle_input(ents, num_players, current, cam, event) ==
    CASE event.kind = "PanCamera" ->
             [result |-> Ok, entities |-> ents, current_player |-> current,
              camera |-> [cam EXCEPT !.position =
                             <<@[1] + event.delta[1], @[2] + event.delta[2], @[3]>>]]
      [] event.kind = "ZoomCamera" ->
             [result |-> Ok, entities |-> ents, current_player |-> current,
              camera |-> [cam EXCEPT !.log_scale = @ + event.scale]]
      [] event.kind = "FireMissile" ->
             LET with_camera(fired) ==
                     [result |-> fired.result, entities |-> fired.entities,
                      current_player |-> fired.current_player, camera |-> cam]
             IN with_camera(fire_missile(ents, num_players, current, event.params))

\* Entity::collides_with_shape for a ball of radius other_radius at
\* other_position: query::proximity of the two balls with the margin
\* f32::EPSILON is anything but Disjoint, which is when the squared distance of
\* the centres is at most (r1 + r2 + margin)^2
collides_with_shape(e, other_radius, other_position) ==
    IF IsSome(e.collision_shape)
    THEN LET delta_pos == VSub(xy(other_position), xy(e.position))
             sum_radius == F32Add(Unwrap(e.collision_shape), other_radius)
             sum_radius_with_error == F32Add(sum_radius, EPSILON)
         IN F32Le(magnitude_squared(delta_pos),
                  F32Mul(sum_radius_with_error, sum_radius_with_error))
    ELSE FALSE

-----------------------------------------------------------------------------
(* The game: Spec *)

\* What the map generator places: a planet at the origin and the ship of
\* player id at ShipPosition(id)
PlanetRadius == 100
ShipPosition(id) == 600 * id - 300

\* What the density distribution gives: a negative draw (which max(0.0)
\* raises to 0) and the mean, PLANET_DENS_MEAN
PLANET_DENS_MEAN == 3
Densities == {-1, PLANET_DENS_MEAN}

\* radius.powi(3)
powi3(radius) == F32Mul(radius, F32Mul(radius, radius))

\* add_planets: the mass (4.0 / 3.0) * PI * radius.powi(3) * density.max(0.0)
\* of a planet, for a whole density
planet_mass(radius, density) ==
    LET volume == F32Mul(F32Mul(F32FromRatio(4, 3), PI), powi3(radius))
    IN F32Mul(volume, F32OfInt(IF density < 0 THEN 0 ELSE density, 0))

PlanetOf(density) ==
    [Entity_new(Vec(0)) EXCEPT !.collision_shape = Some(F32OfGrid(PlanetRadius)),
                               !.mass = planet_mass(F32OfGrid(PlanetRadius), density)]

Planets == {PlanetOf(density) : density \in Densities}

Ships ==
    {[Entity_new(Vec(ShipPosition(id))) EXCEPT !.collision_shape = Some(F32OfGrid(ShipRadius)),
                                               !.ship = Some(Ship_new(id))] :
        id \in 0..(MaxPlayers - 1)}

FireEvent(angle, speed) ==
    [kind |-> "FireMissile", params |-> [angle |-> angle, speed |-> speed]]

\* Fire commands: speeds at both ends of the range and inside it, a NaN speed,
\* and the combinations of a non-finite angle and a speed out of range
FireEvents ==
    {FireEvent(Fin(0), Fin(0)), FireEvent(Fin(0), Fin(3)),
     FireEvent(Fin(1), Fin(MISSILE_MAX_VELOCITY)), FireEvent(Fin(0), NaN),
     FireEvent(NaN, Fin(3)), FireEvent(PosInf, Fin(3)),
     FireEvent(Fin(0), Fin(-1)), FireEvent(Fin(1), Fin(MISSILE_MAX_VELOCITY + 1)),
     FireEvent(NaN, Fin(MISSILE_MAX_VELOCITY + 1))}

CameraEvents ==
    {[kind |-> "PanCamera", delta |-> <<1, 0>>], [kind |-> "PanCamera", delta |-> <<0, -1>>],
     [kind |-> "ZoomCamera", scale |-> 1], [kind |-> "ZoomCamera", scale |-> -1]}

\* How far the camera is from where it starts
CameraReach(cam) == Abs(cam.position[1]) + Abs(cam.position[2]) + Abs(cam.log_scale)

NoCall == [op |-> "none", event |-> [kind |-> "none"], result |-> Ok,
           pre_entities |-> <<>>, pre_current |-> None]

NumMissiles(ents) == Cardinality({i \in 1..Len(ents) : IsSome(ents[i].missile_trail)})
NumShips(ents) == Cardinality({i \in 1..Len(ents) : IsSome(ents[i].ship)})

\* The variables of the turn machine and of the integrator while unused
TurnIdle ==
    /\ phase = [kind |-> "NotStarted"]
    /\ fleet = <<>>
    /\ resolved = [kind |-> "none"]

MissileIdle ==
    /\ the_trail = None
    /\ the_others = <<>>
    /\ the_event = None
    /\ trail_before = None
    /\ event_log = <<>>
    /\ idle_updates = 0

MapIdle == mapgen = [pc |-> "idle"]

ProbeIdle == probe = [pc |-> "idle"]

HostIdle ==
    /\ input_queue = <<>>
    /\ loader = [pc |-> "idle"]

GameIdle ==
    /\ entities = <<>>
    /\ players = <<>>
    /\ current_player = None
    /\ camera = [position |-> <<0, 0, 0>>, log_scale |-> 0]
    /\ last = NoCall
    /\ ticks = 0

\* GameState::new
Init ==
    /\ entities = <<>>
    /\ players = <<>>
    /\ current_player = None
    /\ camera = [position |-> <<0, 0, 0>>, log_scale |-> 0]
    /\ last = NoCall
    /\ ticks = 0
    /\ TurnIdle
    /\ MissileIdle
    /\ MapIdle
    /\ ProbeIdle
    /\ HostIdle

\* The map generator pushes an entity it placed: a planet first, then ships
\* in the order of their players
PushEntity(e) ==
    /\ NumMissiles(entities) = 0
    /\ ticks = 0
    /\ Len(entities) < MaxPlayers + 1
    /\ \A i \in 1..Len(entities) :
           ~collides_with_shape(entities[i], Unwrap(e.collision_shape), e.position)
    /\ IF IsSome(e.ship) THEN Len(entities) > 0 ELSE Len(entities) = 0
    /\ IsSome(e.ship) =>
           \A i \in 1..Len(entities) :
               IsSome(entities[i].ship) =>
                   Unwrap(entities[i].ship).player_id < Unwrap(e.ship).player_id
    /\ entities' = Append(entities, e)
    /\ last' = NoCall
    /\ UNCHANGED <<players, current_player, camera, ticks, turnVars, missileVars, mapVars, probeVars, hostVars>>

\* GameState::set_players
SetPlayers(n) ==
    /\ NumMissiles(entities) = 0
    /\ players' = [i \in 1..n |-> (i - 1) % 3]
    /\ current_player' = None
    /\ last' = NoCall
    /\ UNCHANGED <<entities, camera, ticks, turnVars, missileVars, mapVars, probeVars, hostVars>>

\* GameState::next_player
NextPlayer ==
    /\ current_player' = next_player(entities, Len(players), current_player)
    /\ last' = NoCall
    /\ UNCHANGED <<entities, players, camera, ticks, turnVars, missileVars, mapVars, probeVars, hostVars>>

\* GameState::handle_input
HandleInput(event) ==
    \E r \in {handle_input(entities, Len(players), current_player, camera, event)} :
       /\ event.kind = "FireMissile" => NumMissiles(entities) < MaxMissiles
       /\ event.kind # "FireMissile" => CameraReach(r.camera) <= MaxCamera
       /\ entities' = r.entities
       /\ current_player' = r.current_player
       /\ camera' = r.camera
       /\ last' = [op |-> "handle_input", event |-> event, result |-> r.result,
                   pre_entities |-> entities, pre_current |-> current_player]
       /\ UNCHANGED <<players, ticks, turnVars, missileVars, mapVars, probeVars, hostVars>>

\* GameState::update_missiles, once per host tick
UpdateMissiles ==
    /\ ticks < MaxTicks
    /\ NumMissiles(entities) > 0
    /\ entities' = update_missiles(entities)
    /\ ticks' = ticks + 1
    /\ last' = NoCall
    /\ UNCHANGED <<players, current_player, camera, turnVars, missileVars, mapVars, probeVars, hostVars>>

Next ==
    \/ \E e \in {PlanetOf(PLANET_DENS_MEAN)} \cup Ships : PushEntity(e)
    \/ \E n \in 0..MaxPlayers : SetPlayers(n)
    \/ NextPlayer
    \/ \E event \in FireEvents : HandleInput(event)
    \/ UpdateMissiles

Spec == Init /\ [][Next]_vars

-----------------------------------------------------------------------------
(* Claims about fire_missile *)

LastWasFire == last.op = "handle_input" /\ last.event.kind = "FireMissile"
Errors == {ErrNoShip, ErrAngle, ErrSpeed}

\* A missile of the collection that is still in flight
InFlight(ents) ==
    \E i \in 1..Len(ents) :
        IsSome(ents[i].missile_trail) /\ F32IsPos(Unwrap(ents[i].missile_trail).time_to_live)

\* C1: whenever fire_missile returns an error, the entity collection (length
\* and contents) and the current player are what they were before the call.
C1_RejectedFireChangesNothing ==
    (LastWasFire /\ last.result \in Errors) =>
        /\ entities = last.pre_entities
        /\ current_player = last.pre_current

\* A fire command was rejected for its speed while the current player had a ship
C1_Witness ==
    /\ LastWasFire
    /\ last.result = ErrSpeed
    /\ IsSome(get_ship(entities, current_player))

\* The range fire_missile is to accept: a finite angle and 0 <= speed <= MISSILE_MAX_VELOCITY
InRange(params) ==
    /\ is_finite(params.angle)
    /\ is_finite(params.speed)
    /\ 0 <= params.speed.v
    /\ params.speed.v <= MISSILE_MAX_VELOCITY

\* C2: fire_missile succeeds only for a finite angle and a speed with
\* 0 <= speed <= MISSILE_MAX_VELOCITY; every other pair (a NaN speed among them)
\* is rejected with an InputEventError, and every pair in the range is accepted
\* when the current player has a ship.
C2_AcceptedExactlyInRange ==
    LastWasFire =>
        /\ last.result \in Errors \cup {Ok}
        /\ last.result = Ok <=>
               (InRange(last.event.params)
                /\ IsSome(get_ship(last.pre_entities, last.pre_current)))

\* C3: a fire command is rejected, and creates no missile, whenever there is no
\* current player, whenever a missile is already in flight, and whenever no
\* ship belongs to the current player.
C3_RejectedUnlessAiming ==
    (LastWasFire /\ (\/ ~IsSome(last.pre_current)
                     \/ InFlight(last.pre_entities)
                     \/ ~IsSome(get_ship(last.pre_entities, last.pre_current)))) =>
        /\ last.result \in Errors
        /\ entities = last.pre_entities

\* C4: a successful fire_missile appends exactly one missile entity, whose trail
\* has time_to_live = MISSILE_TIME_TO_LIVE and one position, and the current
\* player stays the firing player.
C4_FireKeepsTheTurn ==
    (LastWasFire /\ last.result = Ok) =>
        /\ Len(entities) = Len(last.pre_entities) + 1
        /\ SubSeq(entities, 1, Len(last.pre_entities)) = last.pre_entities
        /\ IsSome(Last(entities).missile_trail)
        /\ Unwrap(Last(entities).missile_trail).time_to_live = MISSILE_TIME_TO_LIVE
        /\ Len(Unwrap(Last(entities).missile_trail).positions) = 1
        /\ current_player = last.pre_current

\* The entities of ents that are no missiles are the same, at the same
\* places, in after
SameButMissiles(ents, after) ==
    /\ Len(after) >= Len(ents)
    /\ \A i \in 1..Len(ents) :
           /\ IsSome(after[i].missile_trail) <=> IsSome(ents[i].missile_trail)
           /\ ~IsSome(ents[i].missile_trail) => after[i] = ents[i]

\* C21: update_missiles never adds, removes or reorders entities and changes
\* no field of an entity without a missile trail; during play the collection
\* grows only by a fire command that is accepted, by exactly one entity, and
\* no step shrinks it.
C21_TicksKeepTheCollection ==
    [][/\ SameButMissiles(entities, entities')
       /\ ticks' # ticks => Len(entities') = Len(entities)
       /\ last'.op = "handle_input" =>
              /\ SubSeq(entities', 1, Len(entities)) = entities
              /\ Len(entities') = Len(entities)
                     + (IF last'.event.kind = "FireMissile" /\ last'.result = Ok
                        THEN 1 ELSE 0)
       /\ (Len(entities') > Len(entities) /\ NumMissiles(entities') > 0) =>
              (last'.op = "handle_input" /\ last'.event.kind = "FireMissile")]_vars

\* Two ticks have passed over a planet, two ships and a missile that has ended
C21_Witness ==
    /\ ticks = 2
    /\ last = NoCall
    /\ NumShips(entities) = 2
    /\ NumMissiles(entities) > 0
    /\ ~InFlight(entities)

\* C27: after every update_missiles call each entity with a missile trail is
\* at the last position of its trail, whether the missile is live or has
\* ended.
C27_MissileEntityFollowsItsTrail ==
    [][ticks' # ticks =>
           \A i \in 1..Len(entities') :
               IsSome(entities'[i].missile_trail) =>
                   entities'[i].position = Last(Unwrap(entities'[i].missile_trail).positions)]_vars

\* After a tick a missile that has ended in a hit and a missile that is live
\* are both where their trails end, away from where they were launched
C27_Witness ==
    /\ ticks > 0
    /\ last = NoCall
    /\ InFlight(entities)
    /\ \E i \in 1..Len(entities) :
           /\ IsSome(entities[i].missile_trail)
           /\ Unwrap(entities[i].missile_trail).time_to_live = F32Zero
           /\ Len(Unwrap(entities[i].missile_trail).positions) > 1
           /\ entities[i].position = Last(Unwrap(entities[i].missile_trail).positions)
           /\ entities[i].position # Unwrap(entities[i].missile_trail).positions[1]

\* The square of the distance of two points
DistanceSquared(p, q) == magnitude_squared(VSub(p, q))

\* p is in the shape of the ship s, or within 0.02 of it
AtShip(p, s) ==
    LET reach == F32Add(Unwrap(s.collision_shape), F32FromRatio(2, 100))
    IN F32Le(DistanceSquared(p, s.position), F32Mul(reach, reach))

\* The ship a missile was launched from: the ship whose shape the trail
\* starts in, or 0.01 past
Launcher(ents, trail) ==
    CHOOSE s \in {ents[i] : i \in {i \in 1..Len(ents) : IsSome(ents[i].ship)}} :
        AtShip(trail.positions[1], s)

HasLauncher(ents, trail) ==
    \E i \in 1..Len(ents) : IsSome(ents[i].ship) /\ AtShip(trail.positions[1], ents[i])

Trails(ents) ==
    {Unwrap(ents[i].missile_trail) : i \in {i \in 1..Len(ents) : IsSome(ents[i].missile_trail)}}

\* Where the spawn-point walk ends: at or beyond the launcher's bounding
\* radius, or where the ray from the first position does not meet the launcher
WalkEndsClear(ents, trail) ==
    LET ship == Launcher(ents, trail)
        radius == Unwrap(ship.collision_shape)
        first == [trail EXCEPT !.positions = <<trail.positions[1]>>]
    IN \/ F32Le(F32Mul(radius, radius), DistanceSquared(trail.positions[1], ship.position))
       \/ Len(trail.positions) > 1
       \/ ~IsSome(state_time_to_collision(first, ship, FALSE))

\* The first tick of the missile ended it on its launcher
HitLauncherInFirstTick(ents, trail) ==
    LET ship == Launcher(ents, trail)
        radius == Unwrap(ship.collision_shape)
    IN /\ Len(trail.positions) = 2
       /\ trail.time_to_live = F32Zero
       /\ F32Le(DistanceSquared(trail.positions[2], ship.position), F32Mul(radius, radius))

\* C22: the spawn-point walk of fire_missile ends for every accepted angle and
\* speed, with the first position of the trail at or beyond the ship's
\* bounding radius or without a further ray intersection with the ship, and
\* the first tick of the missile does not report a hit on its launcher.
C22_SpawnWalkClearsTheLauncher ==
    \A trail \in Trails(entities) :
        HasLauncher(entities, trail) =>
            /\ WalkEndsClear(entities, trail)
            /\ ~HitLauncherInFirstTick(entities, trail)

\* What holds of the walk: it ends, at or beyond the bounding radius or
\* without a further intersection, for the speeds 0, 3, 10 and NaN
SpawnWalkEndsClear ==
    (LastWasFire /\ last.result = Ok) =>
        /\ Len(Unwrap(Last(entities).missile_trail).positions) = 1
        /\ WalkEndsClear(entities, Unwrap(Last(entities).missile_trail))

\* The players below num_players who have a ship
PlayersWithAShip(ents, num_players) ==
    {Unwrap(ents[i].ship).player_id :
        i \in {i \in 1..Len(ents) : IsSome(ents[i].ship)
                                    /\ Unwrap(ents[i].ship).player_id < num_players}}

\* C26: current_player is None or an index < players.len() that is the
\* player_id of a ship, and it is None when the roster is empty or no ship
\* has a valid player_id.  (That set_players leaves None until the next
\* next_player is not held against the claim.)
C26_CurrentPlayerIsAPlayerWithAShip ==
    /\ IsSome(current_player) =>
           /\ Unwrap(current_player) < Len(players)
           /\ Unwrap(current_player) \in PlayersWithAShip(entities, Len(players))
    /\ (Len(players) = 0 \/ PlayersWithAShip(entities, Len(players)) = {}) =>
           current_player = None

\* What holds of current_player: it is below twice the number of players, and
\* None when the roster is empty or no ship has a valid player_id
CurrentPlayerBelowTwiceTheRoster ==
    /\ IsSome(current_player) => Unwrap(current_player) < 2 * Len(players)
    /\ (Len(players) = 0 \/ PlayersWithAShip(entities, Len(players)) = {}) =>
           current_player = None

\* C30: the errors of fire_missile have a fixed order: a non-finite angle
\* gives InvalidMissileAngle even when the speed is invalid too, an invalid
\* speed (a NaN speed among them) with a finite angle gives InvalidMissileSpeed
\* even when the current player has no ship, and NoShipToFireMissile is
\* returned only for a finite angle and a speed in the range.
C30_ErrorPrecedence ==
    LastWasFire =>
        LET params == last.event.params
            valid_speed == /\ is_finite(params.speed)
                           /\ 0 <= params.speed.v
                           /\ params.speed.v <= MISSILE_MAX_VELOCITY
        IN /\ ~is_finite(params.angle) => last.result = ErrAngle
           /\ (is_finite(params.angle) /\ ~valid_speed) => last.result = ErrSpeed
           /\ last.result = ErrNoShip => (is_finite(params.angle) /\ valid_speed)

\* The order holds for every speed that compares with the bounds: the angle
\* is looked at first, the speed second, the ship last
ErrorPrecedenceOfComparableSpeeds ==
    (LastWasFire /\ last.event.params.speed # NaN) =>
        LET params == last.event.params
            no_ship == ~IsSome(get_ship(last.pre_entities, last.pre_current))
        IN last.result =
               (IF ~is_finite(params.angle) THEN ErrAngle
                ELSE IF ~InRange(params) THEN ErrSpeed
                ELSE IF no_ship THEN ErrNoShip
                ELSE Ok)

\* A speed out of range was rejected as such while no ship could fire, and a
\* NaN angle as such while the speed was out of range
SpeedErrorWithoutShip ==
    /\ LastWasFire
    /\ last.result = ErrSpeed
    /\ ~IsSome(get_ship(last.pre_entities, last.pre_current))

AngleErrorWithInvalidSpeed ==
    /\ LastWasFire
    /\ last.result = ErrAngle
    /\ last.event.params.speed = Fin(MISSILE_MAX_VELOCITY + 1)

\* A NaN speed without a ship to fire
NaNSpeedWithoutShip ==
    /\ LastWasFire
    /\ last.event.params.speed = NaN
    /\ last.result = ErrNoShip

-----------------------------------------------------------------------------
(* The turn machine (state/turn.rs): SpecTurn *)

NotStarted == [kind |-> "NotStarted"]
Playing(turn) == [kind |-> "Playing", turn |-> turn]
GameOver == [kind |-> "GameOver"]

Aiming == "Aiming"
Firing == "Firing"

Turn_new(current_player_) == [current_player |-> current_player_, state |-> Aiming]

\* A skip_eliminated_players without the filter on the ids it is given
Turn_skip_unfiltered(turn, num_players, remaining_players) ==
    IF num_players = 0 THEN GameOver
    ELSE LET steps == {(remaining_players[j] + num_players - turn.current_player) % num_players :
                          j \in 1..Len(remaining_players)}
         IN IF steps # {}
            THEN Playing([turn EXCEPT !.current_player = (@ + SetMin(steps)) % num_players])
            ELSE GameOver

\* Turn::skip_eliminated_players; remaining_players is the sequence the
\* iterator yields
Turn_skip_eliminated_players(turn, num_players, remaining_players) ==
    IF num_players = 0 THEN GameOver
    ELSE LET steps == {(remaining_players[j] + num_players - turn.current_player) % num_players :
                          j \in {j \in 1..Len(remaining_players) :
                                    remaining_players[j] < num_players}}
         IN IF steps # {}
            THEN Playing([turn EXCEPT !.current_player = (@ + SetMin(steps)) % num_players])
            ELSE GameOver

\* A next_player that hands the turn back to its holder instead of ending the game
Turn_next_player_no_end(turn, num_players, remaining_players) ==
    IF num_players = 0 THEN GameOver
    ELSE Turn_skip_eliminated_players(Turn_new((turn.current_player + 1) % num_players),
                                      num_players, remaining_players)

\* Turn::next_player
Turn_next_player(turn, num_players, remaining_players) ==
    IF num_players = 0 THEN GameOver
    ELSE LET next_turn == Turn_new((turn.current_player + 1) % num_players)
             next_phase == Turn_skip_eliminated_players(next_turn, num_players,
                                                        remaining_players)
         IN IF next_phase.kind = "Playing"
            THEN IF next_phase.turn.current_player = turn.current_player
                 THEN GameOver
                 ELSE next_phase
            ELSE next_phase

RECURSIVE active_players(_)
\* GameState::active_players: the players of the ships that are Active, in
\* collection order
active_players(ents) ==
    IF ents = <<>> THEN <<>>
    ELSE LET e == Head(ents)
         IN IF IsSome(e.ship) /\ Unwrap(e.ship).state = ShipActive
            THEN <<Unwrap(e.ship).player_id>> \o active_players(Tail(ents))
            ELSE active_players(Tail(ents))

\* A start_game that gives the turn to player 0 whether or not they have an
\* Active ship
start_game_unskipped(ents, num_players) ==
    IF num_players = 0 THEN GameOver ELSE Playing(Turn_new(0))

\* GameState::start_game
start_game(ents, num_players) ==
    Turn_skip_eliminated_players(Turn_new(0), num_players, active_players(ents))

\* An event application that takes the index of the hit entity for a player id
apply_event_by_player(ents, event) ==
    IF event.kind = "HitEntity"
    THEN [i \in 1..Len(ents) |->
             IF IsSome(ents[i].ship) /\ Unwrap(ents[i].ship).player_id = event.entity
             THEN [ents[i] EXCEPT !.ship = Some([Unwrap(@) EXCEPT !.state = ShipDisabled])]
             ELSE ents[i]]
    ELSE ents

\* An event application that flips the state of the ship that is hit
apply_event_toggling(ents, event) ==
    IF event.kind = "HitEntity" /\ event.entity < Len(ents)
       /\ IsSome(ents[event.entity + 1].ship)
    THEN [ents EXCEPT ![event.entity + 1].ship =
             Some([Unwrap(@) EXCEPT !.state = IF @ = ShipActive THEN ShipDisabled
                                              ELSE ShipActive])]
    ELSE ents

\* A missile event applied to the entities: a ship that is hit is disabled
apply_event(ents, event) ==
    IF event.kind = "HitEntity" /\ event.entity < Len(ents)
       /\ IsSome(ents[event.entity + 1].ship)
    THEN [ents EXCEPT ![event.entity + 1].ship =
             Some([Unwrap(@) EXCEPT !.state = ShipDisabled])]
    ELSE ents

\* GameState::advance_after_resolution: <<entities, phase>> afterwards
advance_after_resolution(ents, num_players, turn, event) ==
    LET applied == apply_event(ents, event)
    IN <<applied, Turn_next_player(turn, num_players, active_players(applied))>>

\* The fleets a game starts from: a planet, then one ship per player, each
\* Active or already Disabled
ShipStates == {ShipActive, ShipDisabled}

Fleet(states) ==
    <<[Entity_new(Vec(0)) EXCEPT !.collision_shape = Some(F32OfGrid(PlanetRadius))]>> \o
    [i \in 1..Len(states) |->
        [Entity_new(Vec(ShipPosition(i - 1))) EXCEPT
            !.collision_shape = Some(F32OfGrid(ShipRadius)),
            !.ship = Some([Ship_new(i - 1) EXCEPT !.state = states[i]])]]

NumTurnPlayers == NumShips(fleet)

NoTransition == [kind |-> "none"]

InitTurn ==
    /\ GameIdle
    /\ MissileIdle
    /\ MapIdle
    /\ ProbeIdle
    /\ HostIdle
    /\ phase = NotStarted
    /\ \E n \in 0..MaxTurnPlayers : \E states \in [1..n -> ShipStates] :
           fleet = Fleet(states)
    /\ resolved = NoTransition

StartGame ==
    /\ phase = NotStarted
    /\ phase' = start_game(fleet, NumTurnPlayers)
    /\ resolved' = [kind |-> "start_game", from |-> phase, fleet |-> fleet,
                    event |-> EventExpired, num_players |-> NumTurnPlayers,
                    remaining |-> active_players(fleet)]
    /\ UNCHANGED <<fleet, gameVars, missileVars, mapVars, probeVars, hostVars>>

\* An accepted fire command: the turn waits for its missile
TurnFire ==
    /\ phase.kind = "Playing"
    /\ phase.turn.state = Aiming
    /\ phase' = Playing([phase.turn EXCEPT !.state = Firing])
    /\ resolved' = [kind |-> "fire", from |-> phase, fleet |-> fleet,
                    event |-> EventExpired, num_players |-> NumTurnPlayers,
                    remaining |-> <<>>]
    /\ UNCHANGED <<fleet, gameVars, missileVars, mapVars, probeVars, hostVars>>

AdvanceAfterResolution(event) ==
    /\ phase.kind = "Playing"
    /\ phase.turn.state = Firing
    /\ LET after == advance_after_resolution(fleet, NumTurnPlayers, phase.turn, event)
       IN /\ fleet' = after[1]
          /\ phase' = after[2]
    /\ resolved' = [kind |-> "advance", from |-> phase, fleet |-> fleet, event |-> event,
                    num_players |-> NumTurnPlayers,
                    remaining |-> active_players(apply_event(fleet, event))]
    /\ UNCHANGED <<gameVars, missileVars, mapVars, probeVars, hostVars>>

NextTurn ==
    \/ StartGame
    \/ TurnFire
    \/ \E event \in {EventExpired} \cup {EventHitEntity(i) : i \in 0..(Len(fleet) - 1)} :
           AdvanceAfterResolution(event)

SpecTurn == InitTurn /\ [][NextTurn]_vars

-----------------------------------------------------------------------------
(* Claims about the turn machine *)

\* The players with an Active ship
ActiveSet(ents) ==
    {Unwrap(ents[i].ship).player_id :
        i \in {i \in 1..Len(ents) : IsSome(ents[i].ship)
                                    /\ Unwrap(ents[i].ship).state = ShipActive}}

\* The ship of player p was Active and the resolved event hit it
DisabledByHit(p) ==
    /\ resolved.kind = "advance"
    /\ resolved.event.kind = "HitEntity"
    /\ LET e == resolved.fleet[resolved.event.entity + 1]
       IN /\ IsSome(e.ship)
          /\ Unwrap(e.ship).player_id = p
          /\ Unwrap(e.ship).state = ShipActive

\* C5: with 2 players, when a HitEntity event has disabled player 0's ship,
\* the advance_after_resolution that resolves it yields GameOver, whichever
\* player held the turn.
C5_EliminationEndsTheGame ==
    (NumTurnPlayers = 2 /\ DisabledByHit(0)) => phase = GameOver

\* The first player of A met in the cyclic order c+1, c+2, ..., c-1 (mod n)
CyclicNext(c, n, A) ==
    LET k == CHOOSE k \in 1..(n - 1) :
                 /\ (c + k) % n \in A
                 /\ \A j \in 1..(k - 1) : (c + j) % n \notin A
    IN (c + k) % n

\* C6: advancing the turn of player c < n among n >= 1 players, A being the
\* players with an Active ship that next_player is given, yields
\* Playing(Turn{next, Aiming}) for the first member next of A in the cyclic
\* order c+1, ..., c-1 (mod n), and GameOver when A has no member other than c.
C6_NextPlayerIsCyclicSuccessor ==
    (resolved.kind = "advance" /\ resolved.num_players >= 1) =>
        LET c == resolved.from.turn.current_player
            n == resolved.num_players
            A == {resolved.remaining[j] : j \in 1..Len(resolved.remaining)}
        IN IF A \ {c} = {}
           THEN phase = GameOver
           ELSE phase = Playing([current_player |-> CyclicNext(c, n, A), state |-> Aiming])

\* The turn passed over a player without an Active ship and wrapped around
C6_Witness ==
    /\ resolved.kind = "advance"
    /\ resolved.num_players = 3
    /\ resolved.from.turn.current_player = 1
    /\ resolved.remaining = <<0, 1>>
    /\ phase = Playing([current_player |-> 0, state |-> Aiming])

\* The turn ended the game because only its holder was left
C6_WitnessGameOver ==
    /\ resolved.kind = "advance"
    /\ ActiveSet(fleet) = {resolved.from.turn.current_player}
    /\ phase = GameOver

\* C7: start_game from NotStarted makes the lowest-indexed player with an
\* Active ship the current player, Aiming, also when no other player is
\* active, and yields GameOver when no player has an Active ship.
C7_StartGamePicksLowestActive ==
    resolved.kind = "start_game" =>
        LET A == ActiveSet(fleet)
        IN IF A = {}
           THEN phase = GameOver
           ELSE phase = Playing([current_player |-> SetMin(A), state |-> Aiming])

\* The game started with player 0 out and a later player as the only active one
C7_Witness ==
    /\ resolved.kind = "start_game"
    /\ resolved.from = NotStarted
    /\ ActiveSet(fleet) = {2}
    /\ phase = Playing([current_player |-> 2, state |-> Aiming])

-----------------------------------------------------------------------------
(* Turn::next_player and Turn::skip_eliminated_players on their own: SpecTurnCalls *)

\* What the iterator of remaining players can yield: up to MaxRemaining ids,
\* in any order, repeated or not, the id num_players (out of range) among them
RemainingPlayers(num_players) ==
    UNION {[1..len -> 0..num_players] : len \in 0..MaxRemaining}

InitTurnCalls ==
    /\ GameIdle
    /\ MissileIdle
    /\ MapIdle
    /\ ProbeIdle
    /\ HostIdle
    /\ fleet = <<>>
    /\ \E c \in 0..(MaxTurnPlayers - 1), state \in {Aiming, Firing} :
           phase = Playing([current_player |-> c, state |-> state])
    /\ resolved = NoTransition

\* turn.next_player(num_players, remaining_players), num_players > current_player
CallNextPlayer(num_players, remaining_players) ==
    /\ phase.kind = "Playing"
    /\ phase.turn.current_player < num_players
    /\ phase' = Turn_next_player(phase.turn, num_players, remaining_players)
    /\ resolved' = [kind |-> "next_player", from |-> phase, fleet |-> fleet,
                    event |-> EventExpired, num_players |-> num_players,
                    remaining |-> remaining_players]
    /\ UNCHANGED <<fleet, gameVars, missileVars, mapVars, probeVars, hostVars>>

\* turn.skip_eliminated_players(num_players, remaining_players),
\* num_players > current_player
CallSkipEliminatedPlayers(num_players, remaining_players) ==
    /\ phase.kind = "Playing"
    /\ phase.turn.current_player < num_players
    /\ phase' = Turn_skip_eliminated_players(phase.turn, num_players, remaining_players)
    /\ resolved' = [kind |-> "skip_eliminated_players", from |-> phase, fleet |-> fleet,
                    event |-> EventExpired, num_players |-> num_players,
                    remaining |-> remaining_players]
    /\ UNCHANGED <<fleet, gameVars, missileVars, mapVars, probeVars, hostVars>>

NextTurnCalls ==
    \E num_players \in 1..MaxTurnPlayers :
        \E remaining_players \in RemainingPlayers(num_players) :
            \/ CallNextPlayer(num_players, remaining_players)
            \/ CallSkipEliminatedPlayers(num_players, remaining_players)

SpecTurnCalls == InitTurnCalls /\ [][NextTurnCalls]_vars

\* C25: a phase Playing(turn) that next_player or skip_eliminated_players
\* produces from a turn with current_player < num_players gives the turn to
\* a player < num_players who is among the remaining players passed in.
C25_TurnGoesToARemainingPlayer ==
    (resolved.kind \in {"next_player", "skip_eliminated_players"}
         /\ phase.kind = "Playing") =>
        /\ phase.turn.current_player < resolved.num_players
        /\ \E j \in 1..Len(resolved.remaining) :
               resolved.remaining[j] = phase.turn.current_player

\* The turn went from player 1 to player 0 while the remaining players held
\* an id out of range
C25_Witness ==
    /\ resolved.kind = "next_player"
    /\ resolved.num_players = 2
    /\ resolved.from.turn.current_player = 1
    /\ resolved.remaining = <<2, 0>>
    /\ phase = Playing([current_player |-> 0, state |-> Aiming])

\* skip_eliminated_players left the turn with its holder, the only player
\* it was given
C25_WitnessSkip ==
    /\ resolved.kind = "skip_eliminated_players"
    /\ resolved.remaining = <<1>>
    /\ resolved.from.turn.current_player = 1
    /\ phase.kind = "Playing"
    /\ phase.turn.current_player = 1

-----------------------------------------------------------------------------
(* The integrator (MissileTrail::update): SpecMissile *)

\* Times to live: 0.1 s, 0.5 s, 1 s, and the 30 s of a missile of the game
ShortTimesToLive == {F32FromRatio(1, 10), F32FromRatio(1, 2), F32FromRatio(1, 1)}

\* Velocities of 0, 3 and 10 length units per second along the x axis, one of
\* 5 units per second across it, and the velocity of a NaN speed
Velocities == {Vec(0), Vec(300), Vec(1000), Vec(-1000), Vec2(300, 400), NaNVec}

\* Positions on the x axis and one 0.4 units off it
StartPositions == {Vec(-300), Vec2(-160, 40), Vec(0)}

\* 4e9 = 1953125 * 2^11 and 1e8 = 390625 * 2^8
HeavyMass == F32OfInt(1953125, 11)
MoonMass == F32OfInt(390625, 8)

\* Entities with a mass of 4e9 and of 1e8, which a caller of update sets
\* (mass is a public field of Entity)
ThePlanet ==
    [Entity_new(Vec(0)) EXCEPT !.collision_shape = Some(F32OfGrid(PlanetRadius)), !.mass = HeavyMass]
AMoon == [Entity_new(Vec(50)) EXCEPT !.collision_shape = Some(F32OfGrid(ShipRadius)), !.mass = MoonMass]
ShipOf(id) ==
    [Entity_new(Vec(ShipPosition(id))) EXCEPT !.collision_shape = Some(F32OfGrid(ShipRadius)),
                                              !.ship = Some(Ship_new(id))]

\* The other entities of a missile, with their indices in the collection
OtherEntities ==
    {<<>>,
     <<<<0, ThePlanet>>>>,
     <<<<0, ThePlanet>>, <<1, ShipOf(0)>>>>,
     <<<<0, PlanetOf(PLANET_DENS_MEAN)>>, <<1, ShipOf(0)>>>>,
     <<<<0, ShipOf(0)>>, <<2, ThePlanet>>>>,
     <<<<0, ThePlanet>>, <<1, AMoon>>>>,
     <<<<1, AMoon>>, <<2, ThePlanet>>>>,
     <<<<0, ShipOf(0)>>, <<1, AMoon>>, <<2, ThePlanet>>>>,
     <<<<0, ThePlanet>>, <<1, ShipOf(0)>>, <<2, AMoon>>>>}

\* Trails whose velocity the pull of the other entities all but cancels: a
\* missile at 1.5 units from the heavy planet that leaves it at 4.5 units per
\* second, inside a ship (the f32 product of the pull is 4.4999995), and a
\* missile at rest inside a ship, half way between two generated planets
CancellingInputs ==
    {[position |-> Vec(-150), velocity |-> Vec(-450),
      others |-> <<<<0, ThePlanet>>,
                   <<1, [ShipOf(0) EXCEPT !.position = Vec(-150)]>>>>],
     [position |-> Vec(0), velocity |-> Vec(0),
      others |-> <<<<0, [PlanetOf(PLANET_DENS_MEAN) EXCEPT !.position = Vec(300)]>>,
                   <<1, [PlanetOf(PLANET_DENS_MEAN) EXCEPT !.position = Vec(-300)]>>,
                   <<2, [ShipOf(0) EXCEPT !.position = Vec(0)]>>>>]}

Launched(position, velocity, time_to_live) ==
    [MissileTrail_new(0, position, velocity) EXCEPT !.time_to_live = time_to_live]

InitMissile ==
    /\ GameIdle
    /\ TurnIdle
    /\ MapIdle
    /\ ProbeIdle
    /\ HostIdle
    /\ \/ \E position \in StartPositions, velocity \in Velocities,
             time_to_live \in ShortTimesToLive :
              /\ the_trail = Some(Launched(position, velocity, time_to_live))
              /\ the_others \in OtherEntities
       \/ \E velocity \in Velocities :
              /\ the_trail = Some(MissileTrail_new(0, Vec(-300), velocity))
              /\ the_others = <<>>
       \/ \E input \in CancellingInputs, time_to_live \in ShortTimesToLive :
              /\ the_trail = Some(Launched(input.position, input.velocity, time_to_live))
              /\ the_others = input.others
    /\ the_event = None
    /\ trail_before = None
    /\ event_log = [launched |-> Unwrap(the_trail), events |-> <<>>, added |-> 0]
    /\ idle_updates = 0

\* One tick: MissileTrail::update on the trail
UpdateTrail ==
    /\ idle_updates < MaxIdle
    /\ \E updated \in {update(Unwrap(the_trail), the_others)} :
          /\ the_trail' = Some(updated[1])
          /\ the_event' = updated[2]
          /\ event_log' = [event_log EXCEPT !.events = Append(@, updated[2])]
    /\ trail_before' = the_trail
    /\ idle_updates' = IF F32LeZero(Unwrap(the_trail).time_to_live)
                       THEN idle_updates + 1 ELSE idle_updates
    /\ UNCHANGED <<the_others, gameVars, turnVars, mapVars, probeVars, hostVars>>

\* The position a caller adds: beyond the planet, 0.3 units off the x axis
AddedPositions == {Vec2(500, 30)}

\* MissileTrail::add_position called on the trail, outside an update: within
\* the first updates of the trail, and once the trail has ended
AddPosition(pos) ==
    /\ event_log.added < MaxAdded
    /\ \/ Len(event_log.events) <= MaxUpdatesBeforeAdd
       \/ F32LeZero(Unwrap(the_trail).time_to_live)
    /\ the_trail' = Some(add_position(Unwrap(the_trail), pos))
    /\ the_event' = None
    /\ trail_before' = None
    /\ event_log' = [event_log EXCEPT !.added = @ + 1]
    /\ UNCHANGED <<the_others, idle_updates, gameVars, turnVars, mapVars, probeVars, hostVars>>

NextMissile ==
    \/ UpdateTrail
    \/ \E pos \in AddedPositions : AddPosition(pos)

SpecMissile == InitMissile /\ [][NextMissile]_vars

-----------------------------------------------------------------------------
(* Claims about the integrator *)

RECURSIVE CeilShifted(_, _, _, _)
\* The least k with k * m >= (q * m + r) * 2^d, for 0 <= r < m
CeilShifted(q, r, m, d) ==
    IF d = 0 THEN (IF r > 0 THEN q + 1 ELSE q)
    ELSE CeilShifted(2 * q + (IF 2 * r >= m THEN 1 ELSE 0), (2 * r) % m, m, d - 1)

\* The first tick at which ticks * TICK_INTERVAL reaches or exceeds t_, for a
\* time t_ > 0 whose exponent is not below TICK_INTERVAL's
FirstTickReaching(t_) ==
    CeilShifted(t_.m \div TICK_INTERVAL.m, t_.m % TICK_INTERVAL.m, TICK_INTERVAL.m,
                t_.e - TICK_INTERVAL.e)

IsHit(event) == IsSome(event) /\ Unwrap(event).kind = "HitEntity"

NeverCollided == \A j \in 1..Len(event_log.events) : ~IsHit(event_log.events[j])

\* C8: a missile launched with time_to_live T that never collides emits
\* Expired on the first tick at which ticks * TICK_INTERVAL >= T, and no event
\* on any other tick.
C8_ExpiresWhenElapsedReachesT ==
    (IsSome(the_trail) /\ NeverCollided) =>
        \A j \in 1..Len(event_log.events) :
            (event_log.events[j] = Some(EventExpired))
                <=> (j = FirstTickReaching(event_log.launched.time_to_live))

\* C9: once time_to_live <= 0, an update returns no event and leaves
\* time_to_live, velocity, positions and data_version as they were.
C9_EndedTrailIsInert ==
    (IsSome(trail_before) /\ F32LeZero(Unwrap(trail_before).time_to_live)) =>
        /\ the_event = None
        /\ Unwrap(the_trail).time_to_live = Unwrap(trail_before).time_to_live
        /\ Unwrap(the_trail).velocity = Unwrap(trail_before).velocity
        /\ Unwrap(the_trail).positions = Unwrap(trail_before).positions
        /\ Unwrap(the_trail).data_version = Unwrap(trail_before).data_version

\* A trail that expired below zero, with a velocity that would move it, was
\* updated again
C9_Witness ==
    /\ idle_updates > 0
    /\ IsSome(trail_before)
    /\ ~F32IsPos(Unwrap(trail_before).time_to_live)
    /\ Unwrap(trail_before).time_to_live # F32Zero
    /\ Unwrap(trail_before).velocity = Vec(1000)

\* A trail that hit an entity was updated again
C9_WitnessAfterHit ==
    /\ idle_updates > 0
    /\ \E j \in 1..Len(event_log.events) : IsHit(event_log.events[j])

RECURSIVE VelocityAt(_, _, _, _)
\* The velocity with which the k-th other entity is tested: the velocity
\* before the tick plus the gravity of the entities before the k-th
VelocityAt(velocity, last_pos, others, k) ==
    IF k = 1 THEN velocity
    ELSE VAdd(VelocityAt(velocity, last_pos, others, k - 1),
                gravity_at(others[k - 1][2], last_pos))

\* The time of impact the ray test against the k-th other entity returns
ImpactAt(before, others, k) ==
    time_to_collision(
        [before EXCEPT !.velocity = VelocityAt(before.velocity, Last(before.positions),
                                               others, k)],
        others[k][2], TRUE)

\* The other entities whose ray test returns a time of impact in this tick,
\* none before them having returned one
FirstImpacts(before, others) ==
    {k \in 1..Len(others) :
        /\ IsSome(ImpactAt(before, others, k))
        /\ \A j \in 1..(k - 1) : ~IsSome(ImpactAt(before, others, j))}

\* The point is in the entity's ball or on its surface, to 0.01 length units
OnBall(point, e) ==
    LET reach == F32Add(Unwrap(e.collision_shape), F32FromRatio(1, 100))
    IN F32Le(magnitude_squared(VSub(xy(point), xy(e.position))), F32Mul(reach, reach))

\* C10: in a tick where the ray test against another entity returns a time of
\* impact <= TICK_INTERVAL, time_to_live becomes exactly 0, exactly one
\* position, the impact point, is appended, the event is HitEntity of the first
\* such entity in collection order, and no later entity is tested or adds
\* gravity.
C10_HitStopsTheTick ==
    (IsSome(trail_before) /\ F32IsPos(Unwrap(trail_before).time_to_live)) =>
        LET before == Unwrap(trail_before)
            after == Unwrap(the_trail)
            last_pos == Last(before.positions)
        IN \A k \in FirstImpacts(before, the_others) :
               LET velocity == VelocityAt(before.velocity, last_pos, the_others, k)
               IN /\ after.time_to_live = F32Zero
                  /\ after.positions =
                         Append(before.positions,
                                VAdd(last_pos,
                                     VScale(velocity, Unwrap(ImpactAt(before, the_others, k)))))
                  /\ after.data_version = before.data_version + 1
                  /\ the_event = Some(EventHitEntity(the_others[k][1]))
                  /\ after.velocity = velocity
                  /\ OnBall(Last(after.positions), the_others[k][2])

\* The missile hit the second of the other entities after the first, a
\* planet, had bent its course, and a third entity with a mass came after
C10_Witness ==
    /\ IsSome(trail_before)
    /\ F32IsPos(Unwrap(trail_before).time_to_live)
    /\ FirstImpacts(Unwrap(trail_before), the_others) = {2}
    /\ Len(the_others) = 3
    /\ the_others[1][2].mass.s > 0
    /\ the_others[3][2].mass.s > 0
    /\ Unwrap(the_trail).velocity # Unwrap(trail_before).velocity
    /\ IsHit(the_event)

\* A missile at rest inside a ship was pulled by a generated planet, whose
\* gravity is below 1e-7 units per second, and hit the ship
C10_WitnessGeneratedPlanet ==
    /\ IsSome(trail_before)
    /\ Unwrap(trail_before).velocity = Vec(0)
    /\ Len(the_others) = 2
    /\ the_others[1][2] = PlanetOf(PLANET_DENS_MEAN)
    /\ the_event = Some(EventHitEntity(1))

\* The pull of the heavy planet left 2^-21 of the velocity of a missile inside
\* a ship, which then hit the ship
C10_WitnessRoundedPull ==
    /\ IsSome(trail_before)
    /\ Unwrap(trail_before).velocity = Vec(-450)
    /\ Unwrap(the_trail).velocity = Vec3(F32OfInt(-1, -21), F32Zero, F32Zero)
    /\ the_event = Some(EventHitEntity(1))

\* The pulls of two generated planets cancelled: the missile at rest inside a
\* ship did not hit it, and the ship's own pull at distance 0 is NaN
C10_WitnessPullsCancel ==
    /\ IsSome(trail_before)
    /\ Len(the_others) = 3
    /\ the_others[3][2].position = Last(Unwrap(trail_before).positions)
    /\ the_others[1][2].mass.s > 0
    /\ the_event = None
    /\ Unwrap(the_trail).velocity = NaNVec
    /\ Last(Unwrap(the_trail).positions) = NaNVec

\* The missile hit an entity off the x axis: the impact point and the
\* velocity both have a y component
C10_WitnessOffAxis ==
    /\ IsHit(the_event)
    /\ F32IsPos(Last(Unwrap(the_trail).positions).y)
    /\ Unwrap(the_trail).velocity.y.s # 0
    /\ Len(Unwrap(the_trail).positions) > 2

\* Two of the other entities were within reach in the tick of the hit
C10_WitnessTwoInReach ==
    /\ IsHit(the_event)
    /\ Cardinality({k \in 1..Len(the_others) :
           IsSome(time_to_collision(Unwrap(trail_before), the_others[k][2], TRUE))}) > 1


\* The updates of the trail while it lived: those up to its one event
LiveUpdates(events) ==
    IF \E j \in 1..Len(events) : IsSome(events[j])
    THEN CHOOSE j \in 1..Len(events) :
             IsSome(events[j]) /\ \A i \in 1..(j - 1) : ~IsSome(events[i])
    ELSE Len(events)

\* C11: positions only grows, an update of a live missile appends exactly one
\* position, and data_version grows by one per appended position, so it is
\* the number of positions appended since the trail was created, by updates
\* and by calls of add_position alike.
C11_PositionsAppendOnly ==
    /\ IsSome(the_trail) =>
           /\ Unwrap(the_trail).data_version = Len(Unwrap(the_trail).positions) - 1
           /\ Len(Unwrap(the_trail).positions)
                  = 1 + event_log.added + LiveUpdates(event_log.events)
    /\ IsSome(trail_before) =>
           LET before == Unwrap(trail_before)
               after == Unwrap(the_trail)
           IN /\ Len(after.positions) >= Len(before.positions)
              /\ SubSeq(after.positions, 1, Len(before.positions)) = before.positions
              /\ F32IsPos(before.time_to_live) =>
                     Len(after.positions) = Len(before.positions) + 1
              /\ after.data_version - before.data_version =
                     Len(after.positions) - Len(before.positions)

\* A position was added to a trail outside an update
C11_WitnessAdded ==
    /\ event_log.added > 0
    /\ IsSome(the_trail)
    /\ Len(event_log.events) > 0
    /\ Unwrap(the_trail).data_version = Len(event_log.events) + 1

\* A trail that flew for some ticks and then appended its impact point
C11_Witness ==
    /\ IsHit(the_event)
    /\ Len(Unwrap(the_trail).positions) > 3
    /\ Unwrap(the_trail).data_version = Len(Unwrap(the_trail).positions) - 1


IsDisabledShip(e) == IsSome(e.ship) /\ Unwrap(e.ship).state = ShipDisabled

\* C12: a ship that is Disabled is Disabled after every step (fire command,
\* resolution of any event, start of the game): it never becomes Active again.
C12_DisabledStaysDisabled ==
    [][\A i \in 1..Len(fleet) :
           IsDisabledShip(fleet[i]) => (i <= Len(fleet') /\ IsDisabledShip(fleet'[i]))]_vars

\* A ship that was already Disabled was hit again and the hit was resolved
C12_Witness ==
    /\ resolved.kind = "advance"
    /\ resolved.event.kind = "HitEntity"
    /\ IsDisabledShip(resolved.fleet[resolved.event.entity + 1])
    /\ IsDisabledShip(fleet[resolved.event.entity + 1])


\* C13: resolving HitEntity(e) sets the ship state of e to Disabled when e is a
\* ship and changes nothing else; when e is not a ship, and when the event is
\* Expired, no entity changes.
C13_HitDisablesOnlyTheShipHit ==
    resolved.kind = "advance" =>
        LET old == resolved.fleet
            hit == resolved.event.entity + 1
        IN /\ Len(fleet) = Len(old)
           /\ IF resolved.event.kind = "HitEntity" /\ IsSome(old[hit].ship)
              THEN /\ \A i \in 1..Len(old) : i # hit => fleet[i] = old[i]
                   /\ IsDisabledShip(fleet[hit])
                   /\ Unwrap(fleet[hit].ship).player_id = Unwrap(old[hit].ship).player_id
                   /\ [fleet[hit] EXCEPT !.ship = old[hit].ship] = old[hit]
              ELSE fleet = old

\* The Active ship of player 1 was hit and disabled while player 0 stayed Active
C13_Witness ==
    /\ resolved.kind = "advance"
    /\ resolved.event = EventHitEntity(2)
    /\ ~IsDisabledShip(resolved.fleet[3])
    /\ IsDisabledShip(fleet[3])
    /\ ~IsDisabledShip(fleet[2])

\* A planet was hit and nothing changed
C13_WitnessPlanet ==
    /\ resolved.kind = "advance"
    /\ resolved.event = EventHitEntity(0)
    /\ fleet = resolved.fleet
    /\ ActiveSet(fleet) # {}


NumEvents(events) == Cardinality({j \in 1..Len(events) : IsSome(events[j])})

\* The tick takes the last of the trail's time
LastTick(before) ==
    F32IsPos(before.time_to_live)
        /\ F32LeZero(F32Sub(before.time_to_live, TICK_INTERVAL))

\* C20: a tick in which a live missile hits an entity emits HitEntity, also
\* when the tick takes the last of its time_to_live; Expired is emitted only
\* in a tick without a hit; a missile has emitted no event while it lives and
\* exactly one when it has ended.
C20_OneEventHitBeforeExpired ==
    IsSome(the_trail) =>
        /\ NumEvents(event_log.events)
               = (IF F32LeZero(Unwrap(the_trail).time_to_live) THEN 1 ELSE 0)
        /\ (IsSome(trail_before) /\ F32IsPos(Unwrap(trail_before).time_to_live)) =>
               LET impacts == FirstImpacts(Unwrap(trail_before), the_others)
               IN /\ impacts # {} => IsHit(the_event)
                  /\ the_event = Some(EventExpired) =>
                         (impacts = {} /\ LastTick(Unwrap(trail_before)))

\* A missile hit an entity in the tick that took the last of its time
C20_Witness ==
    /\ IsSome(trail_before)
    /\ LastTick(Unwrap(trail_before))
    /\ FirstImpacts(Unwrap(trail_before), the_others) # {}
    /\ IsHit(the_event)
    /\ NumEvents(event_log.events) = 1

-----------------------------------------------------------------------------
(* The map generator (state/mapgen.rs): SpecMap *)

MAX_PLACE_ENTITY_TRIES == 256

ErrCouldNotPlaceEntity == "CouldNotPlaceEntity"
ErrCouldNotCreatePlanetRenderer == "CouldNotCreatePlanetRenderer"
ErrCouldNotCreateShipRenderers == "CouldNotCreateShipRenderers"

\* The arenas: width and height of the map
Arenas ==
    {[width |-> F32OfInt(4, 0), height |-> F32OfInt(2, 0)],
     [width |-> F32OfInt(2, 0), height |-> F32OfInt(4, 0)]}

\* The arena of the generated maps: 4 wide and 2 high
MapArenas == {arena \in Arenas : F32Less(arena.height, arena.width)}

\* The planet radius the normal distribution is sampled at: 1.5
PlanetRadii == {F32OfGrid(PlanetRadius + ShipRadius)}

\* The density the normal distribution is sampled at: its mean
MapDensities == {PLANET_DENS_MEAN}

\* The values the random number generator is sampled at: whole numbers
Samples == {F32OfInt(k, 0) : k \in -3..3}

\* rng.gen_range(low, high): a value of the half-open range [low, high)
gen_range(low, high) == {v \in Samples : F32Le(low, v) /\ F32Less(v, high)}

\* The draws of place_entity: x from [-half_width, half_width) and y from
\* [-half_height, half_height), with half_width = width * 0.5 and
\* half_height = height * 0.5
DrawsX(mg) ==
    LET half_width == F32Mul(mg.width, F32FromRatio(1, 2))
    IN gen_range(F32Neg(half_width), half_width)

DrawsY(mg) ==
    LET half_height == F32Mul(mg.height, F32FromRatio(1, 2))
    IN gen_range(F32Neg(half_height), half_height)

\* The test of place_entity that accepts only the last entity's clearance
place_is_free_of_last(ents, radius, pos) ==
    ents = <<>> \/ ~collides_with_shape(Last(ents), radius, pos)

\* The test of place_entity: no entity of the game collides with the shape at pos
place_is_free(ents, radius, pos) ==
    \A i \in 1..Len(ents) : ~collides_with_shape(ents[i], radius, pos)

\* One try of place_entity with the draws x and y: the entity placed at
\* (x, y, 0.0), if the shape collides with no entity there
place_entity_try(ents, radius, x, y) ==
    LET pos == Vec3(x, y, F32Zero)
    IN IF place_is_free(ents, radius, pos)
       THEN Some([Entity_new(Vec3(pos.x, pos.y, F32Zero)) EXCEPT
                     !.collision_shape = Some(radius)])
       ELSE None

\* MapgenParams::add_players
add_players(num_players) == [i \in 1..num_players |-> (i - 1) % 3]

InitMap ==
    /\ GameIdle
    /\ TurnIdle
    /\ MissileIdle
    /\ ProbeIdle
    /\ HostIdle
    /\ \E arena \in MapArenas, num_players \in 0..MaxMapPlayers :
           mapgen = [pc |-> "start", width |-> arena.width, height |-> arena.height,
                     num_players |-> num_players,
                     num_planets |-> 0, planets_left |-> 0, radius |-> F32Zero,
                     tries |-> 0, unplaced |-> 0, ships_done |-> 0,
                     ship_unplaced |-> FALSE, result |-> None]

\* generate_map up to the number of planets: add_players, the planet mesh,
\* the sampled count
AddPlayers(mesh_ok, num_planets) ==
    /\ mapgen.pc = "start"
    /\ players' = add_players(mapgen.num_players)
    /\ current_player' = None
    /\ mapgen' = IF mesh_ok
                 THEN [mapgen EXCEPT !.pc = "planets", !.num_planets = num_planets,
                                     !.planets_left = num_planets]
                 ELSE [mapgen EXCEPT !.pc = "done",
                                     !.result = Some(ErrCouldNotCreatePlanetRenderer)]
    /\ UNCHANGED <<entities, camera, last, ticks, turnVars, missileVars, probeVars, hostVars>>

\* add_planets: the radius of the next planet is sampled
SampleRadius(radius) ==
    /\ mapgen.pc = "planets"
    /\ mapgen.planets_left > 0
    /\ mapgen.radius = F32Zero
    /\ mapgen' = [mapgen EXCEPT !.radius = radius, !.tries = 0]
    /\ UNCHANGED <<gameVars, turnVars, missileVars, probeVars, hostVars>>

\* add_planets after one try of place_entity for a planet: a planet that is
\* placed is counted, a planet whose tries are used up is logged and left out
after_planet_try(mg, placed) ==
    IF placed
    THEN [mg EXCEPT !.planets_left = @ - 1, !.radius = F32Zero, !.tries = 0]
    ELSE IF mg.tries + 1 = MAX_PLACE_ENTITY_TRIES
    THEN [mg EXCEPT !.planets_left = @ - 1, !.radius = F32Zero, !.tries = 0,
                    !.unplaced = @ + 1]
    ELSE [mg EXCEPT !.tries = @ + 1]

\* add_planets: one try of place_entity for the planet
TryPlacePlanet(x, y, density) ==
    /\ mapgen.pc = "planets"
    /\ F32IsPos(mapgen.radius)
    /\ LET placed == place_entity_try(entities, mapgen.radius, x, y)
       IN /\ entities' = IF IsSome(placed)
                         THEN Append(entities,
                                     [Unwrap(placed) EXCEPT
                                         !.mass = planet_mass(mapgen.radius, density)])
                         ELSE entities
          /\ mapgen' = after_planet_try(mapgen, IsSome(placed))
    /\ UNCHANGED <<players, current_player, camera, last, ticks, turnVars, missileVars, probeVars, hostVars>>

\* add_ships: the ship renderers are made, one per player (with no player
\* make_ship_renderer is not called and cannot fail)
AddShips(renderers_ok) ==
    /\ mapgen.pc = "planets"
    /\ mapgen.planets_left = 0
    /\ mapgen' = IF Len(players) # 0 /\ ~renderers_ok
                 THEN [mapgen EXCEPT !.pc = "done",
                                     !.result = Some(ErrCouldNotCreateShipRenderers)]
                 ELSE IF Len(players) = 0
                 THEN [mapgen EXCEPT !.pc = "done", !.result = Some(Ok)]
                 ELSE [mapgen EXCEPT !.pc = "ships", !.tries = 0]
    /\ UNCHANGED <<gameVars, turnVars, missileVars, probeVars, hostVars>>

\* An add_ships that ends before the ship of the last player
after_ship_try_ending_early(mg, placed, num_players) ==
    IF placed
    THEN IF mg.ships_done + 2 >= num_players
         THEN [mg EXCEPT !.ships_done = @ + 1, !.tries = 0,
                         !.pc = "done", !.result = Some(Ok)]
         ELSE [mg EXCEPT !.ships_done = @ + 1, !.tries = 0]
    ELSE IF mg.tries + 1 = MAX_PLACE_ENTITY_TRIES
    THEN [mg EXCEPT !.ship_unplaced = TRUE, !.pc = "done",
                    !.result = Some(ErrCouldNotPlaceEntity)]
    ELSE [mg EXCEPT !.tries = @ + 1]

\* add_ships after one try of place_entity for a ship: the error of a ship
\* whose tries are used up is returned
after_ship_try(mg, placed, num_players) ==
    IF placed
    THEN IF mg.ships_done + 1 = num_players
         THEN [mg EXCEPT !.ships_done = @ + 1, !.tries = 0,
                         !.pc = "done", !.result = Some(Ok)]
         ELSE [mg EXCEPT !.ships_done = @ + 1, !.tries = 0]
    ELSE IF mg.tries + 1 = MAX_PLACE_ENTITY_TRIES
    THEN [mg EXCEPT !.ship_unplaced = TRUE, !.pc = "done",
                    !.result = Some(ErrCouldNotPlaceEntity)]
    ELSE [mg EXCEPT !.tries = @ + 1]

\* add_ships: one try of place_entity for the ship of the next player
TryPlaceShip(x, y) ==
    /\ mapgen.pc = "ships"
    /\ LET placed == place_entity_try(entities, F32OfGrid(ShipRadius), x, y)
       IN /\ entities' = IF IsSome(placed)
                         THEN Append(entities, [Unwrap(placed) EXCEPT
                                                   !.ship = Some(Ship_new(mapgen.ships_done))])
                         ELSE entities
          /\ mapgen' = after_ship_try(mapgen, IsSome(placed), Len(players))
    /\ UNCHANGED <<players, current_player, camera, last, ticks, turnVars, missileVars, probeVars, hostVars>>

NextMap ==
    \/ \E mesh_ok \in BOOLEAN, num_planets \in 1..MaxPlanets : AddPlayers(mesh_ok, num_planets)
    \/ \E radius \in PlanetRadii : SampleRadius(radius)
    \/ \E x \in DrawsX(mapgen), y \in DrawsY(mapgen), density \in MapDensities :
           TryPlacePlanet(x, y, density)
    \/ \E renderers_ok \in BOOLEAN : AddShips(renderers_ok)
    \/ \E x \in DrawsX(mapgen), y \in DrawsY(mapgen) : TryPlaceShip(x, y)

SpecMap == InitMap /\ [][NextMap]_vars


-----------------------------------------------------------------------------
(* The camera and the fire command of a generated game: SpecCamera *)

\* A game as generate_map leaves it: a planet, one ship per player, nobody's
\* turn yet
InitCamera ==
    /\ entities = <<PlanetOf(PLANET_DENS_MEAN)>> \o
                  [i \in 1..MaxPlayers |->
                      CHOOSE ship \in Ships : Unwrap(ship.ship).player_id = i - 1]
    /\ players = add_players(MaxPlayers)
    /\ current_player = None
    /\ camera = [position |-> <<0, 0, 0>>, log_scale |-> 0]
    /\ last = NoCall
    /\ ticks = 0
    /\ TurnIdle
    /\ MissileIdle
    /\ MapIdle
    /\ ProbeIdle
    /\ HostIdle

NextCamera ==
    \/ NextPlayer
    \/ \E event \in CameraEvents \cup {FireEvent(Fin(0), Fin(3))} : HandleInput(event)
    \/ UpdateMissiles

SpecCamera == InitCamera /\ [][NextCamera]_vars

IsCameraEvent(event) == event.kind \in {"PanCamera", "ZoomCamera"}

\* C18: handle_input with PanCamera or ZoomCamera returns Ok and leaves the
\* entities, the players and the current player as they were (only the
\* camera changes).
C18_CameraEventsChangeOnlyTheCamera ==
    [][(last'.op = "handle_input" /\ IsCameraEvent(last'.event)) =>
           /\ last'.result = Ok
           /\ entities' = entities
           /\ players' = players
           /\ current_player' = current_player
           /\ ticks' = ticks
           /\ camera' # camera]_vars

\* The camera was zoomed, after a pan, while a missile was in flight and a
\* player had the turn
C18_Witness ==
    /\ last.op = "handle_input"
    /\ last.event.kind = "ZoomCamera"
    /\ last.result = Ok
    /\ camera.log_scale # 0
    /\ camera.position # <<0, 0, 0>>
    /\ NumMissiles(entities) > 0
    /\ IsSome(current_player)

-----------------------------------------------------------------------------
(* Claims about the map generator *)

Radius(e) == Unwrap(e.collision_shape)

\* C14: in every map for which generate_map returns Ok, every two placed
\* entities are disjoint under the proximity test of place_entity.
C14_PlacedEntitiesDisjoint ==
    (mapgen.pc = "done" /\ mapgen.result = Some(Ok)) =>
        \A i, j \in 1..Len(entities) :
            i # j => ~collides_with_shape(entities[i], Radius(entities[j]),
                                          entities[j].position)

\* A map of a planet and two ships was generated
C14_Witness ==
    /\ mapgen.pc = "done"
    /\ mapgen.result = Some(Ok)
    /\ NumShips(entities) = 2
    /\ Len(entities) > 2

\* C15: when the placement of a planet or of a ship has used up its tries,
\* generate_map returns CouldNotPlaceEntity; the failure is never left out so
\* that generation goes on or returns Ok.
C15_PlacementFailureAborts ==
    (mapgen.pc # "idle" /\ (mapgen.unplaced > 0 \/ mapgen.ship_unplaced)) =>
        /\ mapgen.pc = "done"
        /\ mapgen.result = Some(ErrCouldNotPlaceEntity)

NumPlanets(ents) == Len(ents) - NumShips(ents)

\* What the generator does: generate_map returns CouldNotPlaceEntity exactly
\* when the placement of a ship has used up its tries; a planet whose
\* placement has used up its tries is left out of the map and generation goes
\* on, every sampled planet being either placed, left out or still to come.
ShipFailureAbortsPlanetFailureIsLeftOut ==
    mapgen.pc # "idle" =>
        /\ mapgen.ship_unplaced <=>
               (mapgen.pc = "done" /\ mapgen.result = Some(ErrCouldNotPlaceEntity))
        /\ mapgen.pc \in {"planets", "ships"} \/ mapgen.result \in {Some(Ok), Some(ErrCouldNotPlaceEntity)} =>
               NumPlanets(entities) + mapgen.unplaced + mapgen.planets_left
                   = mapgen.num_planets
        /\ mapgen.result = Some(Ok) => NumShips(entities) = mapgen.num_players

\* A planet was left out, the ships were placed and generate_map returned Ok
PlanetLeftOutWitness ==
    /\ mapgen.pc = "done"
    /\ mapgen.result = Some(Ok)
    /\ mapgen.unplaced > 0
    /\ NumShips(entities) > 0

\* The placement of a ship used up its tries and generate_map returned the error
ShipFailureWitness ==
    /\ mapgen.ship_unplaced
    /\ mapgen.result = Some(ErrCouldNotPlaceEntity)


\* The player ids of the ships, in collection order
ShipIds(ents) ==
    LET ships == SelectSeq(ents, LAMBDA e : IsSome(e.ship))
    IN [i \in 1..Len(ships) |-> Unwrap(ships[i].ship).player_id]

\* C24: when generate_map returns Ok for num_players = n, the roster has n
\* players and the entities hold exactly n ships, with the player ids
\* 0..n-1, each once, all after the planets.
C24_OneShipPerPlayerAfterThePlanets ==
    (mapgen.pc = "done" /\ mapgen.result = Some(Ok)) =>
        /\ Len(players) = mapgen.num_players
        /\ ShipIds(entities) = [i \in 1..mapgen.num_players |-> i - 1]
        /\ \A i, j \in 1..Len(entities) :
               (i < j /\ IsSome(entities[i].ship)) => IsSome(entities[j].ship)

\* A map for two players was generated, with one planet placed before the
\* ships and one planet left out
C24_Witness ==
    /\ mapgen.pc = "done"
    /\ mapgen.result = Some(Ok)
    /\ mapgen.num_players = 2
    /\ mapgen.unplaced = 1
    /\ ~IsSome(entities[1].ship)
    /\ ShipIds(entities) = <<0, 1>>

-----------------------------------------------------------------------------
(* Entity::gravity_at on its own: SpecGravity *)

\* Positions of the attractor and of the test point, in 0.01 units
ProbePoints == {Vec(50 * k) : k \in -6..6}

\* Positions the gravity of a planet of the generator shows at
FarProbePoints == {Vec(4000 * k) : k \in {-2, -1, 1, 2}}

PLANET_RAD_MEAN == 1200

\* Masses of the attractor: none, 1e8 and 4e9 set by a caller (mass is a
\* public field), and the mass add_planets gives the mean planet
ProbeMasses ==
    {NoMass, MoonMass, HeavyMass, planet_mass(F32OfGrid(PLANET_RAD_MEAN), PLANET_DENS_MEAN)}

ProbePointsOf(mass) ==
    IF mass = planet_mass(F32OfGrid(PLANET_RAD_MEAN), PLANET_DENS_MEAN)
    THEN ProbePoints \cup FarProbePoints
    ELSE ProbePoints

InitGravity ==
    /\ GameIdle
    /\ TurnIdle
    /\ MissileIdle
    /\ MapIdle
    /\ HostIdle
    /\ \E mass \in ProbeMasses :
       \E position \in ProbePointsOf(mass), pos \in ProbePointsOf(mass) \cup {NaNVec} :
           probe = [pc |-> "ready",
                    attractor |-> [Entity_new(position) EXCEPT !.mass = mass],
                    pos |-> pos, gravity |-> NaNVec]

\* attractor.gravity_at(&pos)
GravityAt ==
    /\ probe.pc = "ready"
    /\ probe' = [probe EXCEPT !.pc = "done",
                              !.gravity = gravity_at(probe.attractor, probe.pos)]
    /\ UNCHANGED <<gameVars, turnVars, missileVars, mapVars, hostVars>>

NextGravity == GravityAt

SpecGravity == InitGravity /\ [][NextGravity]_vars

\* The x coordinate of a point, in hundredths
GridX(p) == F32ToGrid(p.x)

\* The attractor has a positive mass and the test point is at a distance > 0
ProbeAtADistance ==
    /\ probe.pc = "done"
    /\ probe.attractor.mass.s > 0
    /\ probe.pos # NaNVec
    /\ probe.pos.x # probe.attractor.position.x

\* A mass a caller set, in units of 1e8
MassE8(mass) == IF mass = MoonMass THEN 1 ELSE IF mass = HeavyMass THEN 40 ELSE 0

\* GRAVITATIONAL_CONSTANT = 5e-10, in units of 1e-10
GRAVITATIONAL_CONSTANT_E10 == 5

\* C17: for an attractor of positive mass at distance d > 0 from the test
\* point, gravity_at is not zero, is directed from the test point toward the
\* attractor, and its magnitude is d^2 * mass * GRAVITATIONAL_CONSTANT: to the
\* nearest 0.01 it is that product (for the masses in units of 1e8; for the
\* mass of a generated planet it lies between the products of the whole parts
\* of d^2 and of the mass and of the next whole numbers), and at twice the
\* distance it is exactly four times as large.
C17_GravityTowardAttractorGrowsWithSquare ==
    ProbeAtADistance =>
        LET toward == GridX(probe.attractor.position) - GridX(probe.pos)
            magnitude == Abs(GridX(probe.gravity))
            twice == gravity_at(probe.attractor,
                                Vec(GridX(probe.attractor.position) - 2 * toward))
        IN /\ ~F32IsNaN(probe.gravity.x)
           /\ ~F32IsInf(probe.gravity.x)
           /\ probe.gravity.x.s = Sign(toward)
           /\ probe.gravity.y = F32Zero
           /\ probe.gravity.z = F32Zero
           /\ twice = [probe.gravity EXCEPT !.x.e = @ + 2]
           /\ MassE8(probe.attractor.mass) > 0 =>
                  LET d2mG == toward * toward * MassE8(probe.attractor.mass)
                                  * GRAVITATIONAL_CONSTANT_E10
                  IN 2 * Abs(magnitude * LengthScale * LengthScale - d2mG)
                         <= LengthScale * LengthScale + LengthScale
           /\ MassE8(probe.attractor.mass) = 0 =>
                  LET d2 == (toward * toward) \div (LengthScale * LengthScale)
                      mass == F32ToGrid(probe.attractor.mass) \div LengthScale
                      per_unit == 200000 * LengthScale
                  IN /\ (2 * magnitude - 1) * per_unit <= 2 * (d2 + 1) * (mass + 1)
                     /\ 2 * d2 * mass <= (2 * magnitude + 1) * per_unit

\* The gravity of the heavier attractor at a point 3 units to its right was
\* computed: it points to the left and is larger than at 1 unit
C17_Witness ==
    /\ ProbeAtADistance
    /\ probe.attractor.mass = HeavyMass
    /\ GridX(probe.pos) - GridX(probe.attractor.position) = 3 * LengthScale
    /\ probe.gravity.x.s < 0
    /\ GridX(probe.gravity) = -1800
    /\ Abs(GridX(gravity_at(probe.attractor,
                            Vec(GridX(probe.attractor.position) + LengthScale)))) = 200

\* The gravity of the mean planet of the generator at 80 units: 0.07 per
\* tick; at 3 units it is below 0.01 and not zero
C17_WitnessGenerated ==
    /\ ProbeAtADistance
    /\ probe.attractor.mass = planet_mass(F32OfGrid(PLANET_RAD_MEAN), PLANET_DENS_MEAN)
    /\ GridX(probe.pos) - GridX(probe.attractor.position) = 80 * LengthScale
    /\ GridX(probe.gravity) = -7
    /\ F32IsPos(magnitude_squared(
           gravity_at(probe.attractor, Vec(GridX(probe.attractor.position) + 3 * LengthScale))))
    /\ GridX(gravity_at(probe.attractor,
                        Vec(GridX(probe.attractor.position) + 3 * LengthScale))) = 0

-----------------------------------------------------------------------------
(* A fire command and the flight of its missile in a generated game: SpecFlight *)

\* Fire commands that are accepted: along the x axis to the right and to the
\* left, at speed 0, and with a NaN speed
FlightParams ==
    {[angle |-> Fin(0), speed |-> Fin(1)], [angle |-> Fin(1), speed |-> Fin(1)],
     [angle |-> Fin(0), speed |-> Fin(0)], [angle |-> Fin(0), speed |-> NaN]}

\* try_start_game: the game generate_map leaves, a planet and one ship per
\* player, after state.next_player()
InitFlight ==
    /\ \E planet \in Planets :
           entities = <<planet>> \o
                      [i \in 1..MaxPlayers |->
                          CHOOSE ship \in Ships : Unwrap(ship.ship).player_id = i - 1]
    /\ players = add_players(MaxPlayers)
    /\ current_player = next_player(entities, MaxPlayers, None)
    /\ camera = [position |-> <<0, 0, 0>>, log_scale |-> 0]
    /\ last = NoCall
    /\ ticks = 0
    /\ TurnIdle
    /\ MissileIdle
    /\ MapIdle
    /\ ProbeIdle
    /\ HostIdle

\* ceil(MISSILE_TIME_TO_LIVE / TICK_INTERVAL) + 1
MostTicksInFlight == FirstTickReaching(MISSILE_TIME_TO_LIVE) + 1

\* GameState::handle_input with a fire command, while no missile has been fired
FlightFire(params) ==
    \E r \in {handle_input(entities, Len(players), current_player, camera,
                           FireEvent(params.angle, params.speed))} :
       /\ NumMissiles(entities) = 0
       /\ entities' = r.entities
       /\ current_player' = r.current_player
       /\ camera' = r.camera
       /\ last' = [op |-> "handle_input", event |-> FireEvent(params.angle, params.speed),
                   result |-> r.result,
                   pre_entities |-> entities, pre_current |-> current_player]
       /\ UNCHANGED <<players, ticks, turnVars, missileVars, mapVars, probeVars, hostVars>>

\* GameState::update_missiles, once per host tick while the missile is in flight
FlightTick ==
    /\ InFlight(entities)
    /\ ticks <= MostTicksInFlight
    /\ entities' = update_missiles(entities)
    /\ ticks' = ticks + 1
    /\ UNCHANGED <<players, current_player, camera, last, turnVars, missileVars, mapVars, probeVars, hostVars>>

NextFlight ==
    \/ \E params \in FlightParams : FlightFire(params)
    \/ FlightTick

SpecFlight == InitFlight /\ [][NextFlight]_vars

\* The missile of the fire command
FiredMissile == Unwrap(Last(entities).missile_trail)

C19_WitnessHit ==
    /\ LastWasFire
    /\ NumMissiles(entities) = 1
    /\ ticks > 1
    /\ FiredMissile.time_to_live = F32Zero
    /\ Len(FiredMissile.positions) = ticks + 1


-----------------------------------------------------------------------------
(* MapgenParams::place_entity on its own: SpecPlace *)

\* An entity with a ball of radius r hundredths at (x, y) hundredths
PlanetAt(x, y, r) == [Entity_new(Vec2(x, y)) EXCEPT !.collision_shape = Some(F32OfGrid(r))]

\* Games place_entity is called on: no entity yet, a planet that leaves room,
\* two balls of radius 0.5 that leave room between them (in the wide arena,
\* and in the high one), a planet that fills the arena
PlacedBefore ==
    {<<>>,
     <<PlanetAt(0, 0, PlanetRadius)>>,
     <<PlanetAt(-200, -100, ShipRadius), PlanetAt(100, 0, ShipRadius)>>,
     <<PlanetAt(-100, -200, ShipRadius), PlanetAt(0, 100, ShipRadius)>>,
     <<PlanetAt(0, 0, 5 * ShipRadius)>>}

PlaceRadii == {F32OfGrid(ShipRadius)} \cup PlanetRadii

\* The point pos is in the rectangle [-width / 2, width / 2) x
\* [-height / 2, height / 2) of the plane z = 0.0
InArena(pos, width, height) ==
    /\ F32Le(F32Neg(width), F32Add(pos.x, pos.x))
    /\ F32Less(F32Add(pos.x, pos.x), width)
    /\ F32Le(F32Neg(height), F32Add(pos.y, pos.y))
    /\ F32Less(F32Add(pos.y, pos.y), height)
    /\ pos.z = F32Zero

InitPlace ==
    /\ players = <<>>
    /\ current_player = None
    /\ camera = [position |-> <<0, 0, 0>>, log_scale |-> 0]
    /\ last = NoCall
    /\ ticks = 0
    /\ TurnIdle
    /\ MissileIdle
    /\ ProbeIdle
    /\ HostIdle
    /\ \E arena \in Arenas, radius \in PlaceRadii :
           /\ entities \in {placed \in PlacedBefore :
                                \A i \in 1..Len(placed) :
                                    InArena(placed[i].position, arena.width, arena.height)}
           /\ mapgen = [pc |-> "place", width |-> arena.width, height |-> arena.height,
                        radius |-> radius,
                        attempts |-> 0, candidate |-> None, result |-> None]

\* A place_entity that draws once more after MAX_PLACE_ENTITY_TRIES draws
place_entity_draw_once_more(mg, ents, x, y) ==
    LET placed == place_entity_try(ents, mg.radius, x, y)
        drawn == [mg EXCEPT !.attempts = @ + 1, !.candidate = Some(Vec3(x, y, F32Zero))]
    IN IF IsSome(placed) THEN [drawn EXCEPT !.result = Some([ok |-> TRUE, entity |-> placed])]
       ELSE IF drawn.attempts = MAX_PLACE_ENTITY_TRIES + 1
       THEN [drawn EXCEPT !.result = Some([ok |-> FALSE, entity |-> None])]
       ELSE drawn

\* One pass of the loop of place_entity with x and y drawn: the entity is
\* returned if the shape is free at (x, y), the error after the last pass
place_entity_draw(mg, ents, x, y) ==
    LET placed == place_entity_try(ents, mg.radius, x, y)
        drawn == [mg EXCEPT !.attempts = @ + 1, !.candidate = Some(Vec3(x, y, F32Zero))]
    IN IF IsSome(placed) THEN [drawn EXCEPT !.result = Some([ok |-> TRUE, entity |-> placed])]
       ELSE IF drawn.attempts = MAX_PLACE_ENTITY_TRIES
       THEN [drawn EXCEPT !.result = Some([ok |-> FALSE, entity |-> None])]
       ELSE drawn

PlaceEntityDraw(x, y) ==
    /\ mapgen.pc = "place"
    /\ mapgen.result = None
    /\ mapgen' = place_entity_draw(mapgen, entities, x, y)
    /\ UNCHANGED <<gameVars, turnVars, missileVars, probeVars, hostVars>>

NextPlace == \E x \in DrawsX(mapgen), y \in DrawsY(mapgen) : PlaceEntityDraw(x, y)

SpecPlace == InitPlace /\ [][NextPlace]_vars

\* C23: place_entity makes at most MAX_PLACE_ENTITY_TRIES attempts; it goes on
\* only after a candidate that collides, returns the first candidate that
\* collides with no entity of the game, at a position inside
\* [-width / 2, width / 2) x [-height / 2, height / 2), and returns
\* CouldNotPlaceEntity when all MAX_PLACE_ENTITY_TRIES candidates collided.
C23_PlaceEntityTriesAtMost256 ==
    mapgen.pc = "place" =>
        /\ mapgen.attempts <= MAX_PLACE_ENTITY_TRIES
        /\ mapgen.attempts > 0 =>
               /\ IsSome(mapgen.candidate)
               /\ InArena(Unwrap(mapgen.candidate), mapgen.width, mapgen.height)
        /\ (mapgen.result = None /\ mapgen.attempts > 0) =>
               /\ mapgen.attempts < MAX_PLACE_ENTITY_TRIES
               /\ \E i \in 1..Len(entities) :
                      collides_with_shape(entities[i], mapgen.radius, Unwrap(mapgen.candidate))
        /\ IsSome(mapgen.result) =>
               LET returned == Unwrap(mapgen.result)
                   pos == Unwrap(mapgen.candidate)
               IN IF returned.ok
                  THEN /\ Unwrap(returned.entity).position = pos
                       /\ Unwrap(returned.entity).collision_shape = Some(mapgen.radius)
                       /\ InArena(Unwrap(returned.entity).position, mapgen.width, mapgen.height)
                       /\ \A i \in 1..Len(entities) :
                              ~collides_with_shape(entities[i], mapgen.radius, pos)
                  ELSE /\ mapgen.attempts = MAX_PLACE_ENTITY_TRIES
                       /\ \E i \in 1..Len(entities) :
                              collides_with_shape(entities[i], mapgen.radius, pos)

\* All MAX_PLACE_ENTITY_TRIES candidates collided and the error was returned
C23_Witness ==
    /\ mapgen.pc = "place"
    /\ mapgen.attempts = MAX_PLACE_ENTITY_TRIES
    /\ mapgen.result = Some([ok |-> FALSE, entity |-> None])

\* An entity was returned at the last attempt, between two planets
C23_WitnessLastAttempt ==
    /\ mapgen.pc = "place"
    /\ mapgen.attempts = MAX_PLACE_ENTITY_TRIES
    /\ IsSome(mapgen.result)
    /\ Unwrap(mapgen.result).ok
    /\ Len(entities) = 2


-----------------------------------------------------------------------------
(* The host's update callback and its input queue (glue): SpecHost *)

\* What the page sends: two fire commands in opposite directions, a fire
\* command with a speed below 0, and a pan
HostEvents ==
    {FireEvent(Fin(0), Fin(3)), FireEvent(Fin(1), Fin(3)), FireEvent(Fin(0), Fin(-1)),
     [kind |-> "PanCamera", delta |-> <<1, 0>>]}

NumFires(queue) == Cardinality({i \in 1..Len(queue) : queue[i].kind = "FireMissile"})

\* try_start_game: the generated game after state.next_player(), an empty queue
InitHost ==
    /\ \E planet \in Planets :
           entities = <<planet>> \o
                      [i \in 1..MaxPlayers |->
                          CHOOSE ship \in Ships : Unwrap(ship.ship).player_id = i - 1]
    /\ players = add_players(MaxPlayers)
    /\ current_player = next_player(entities, MaxPlayers, None)
    /\ camera = [position |-> <<0, 0, 0>>, log_scale |-> 0]
    /\ last = NoCall
    /\ ticks = 0
    /\ TurnIdle
    /\ MissileIdle
    /\ MapIdle
    /\ ProbeIdle
    /\ input_queue = <<>>
    /\ loader = [pc |-> "idle"]

\* GameHandle::on_fire, on_pan, on_zoom: the event is pushed at the back
OnInput(event) ==
    /\ ticks < MaxTicks
    /\ Len(input_queue) < MaxQueue
    /\ IF event.kind = "FireMissile"
       THEN NumMissiles(entities) + NumFires(input_queue) < MaxMissiles
       ELSE CameraReach(camera) + Len(input_queue) - NumFires(input_queue) < MaxCamera
    /\ input_queue' = Append(input_queue, event)
    /\ UNCHANGED <<gameVars, loader, turnVars, missileVars, mapVars, probeVars>>

RECURSIVE drain_stopping_at_error(_, _)
\* A loop over the drained events that ends at the first event that is rejected
drain_stopping_at_error(state, events) ==
    IF events = <<>> THEN state
    ELSE LET r == handle_input(state.entities, state.num_players, state.current_player,
                               state.camera, Head(events))
             after == [state EXCEPT !.entities = r.entities,
                                    !.current_player = r.current_player,
                                    !.camera = r.camera,
                                    !.results = Append(@, r.result)]
         IN IF r.result = Ok THEN drain_stopping_at_error(after, Tail(events)) ELSE after

RECURSIVE drain(_, _)
\* update_game: the loop over the drained events, front first; an error is
\* logged and the loop goes on
drain(state, events) ==
    IF events = <<>> THEN state
    ELSE LET handled(r) ==
                 [state EXCEPT !.entities = r.entities,
                               !.current_player = r.current_player,
                               !.camera = r.camera,
                               !.results = Append(@, r.result)]
         IN drain(handled(handle_input(state.entities, state.num_players,
                                       state.current_player, state.camera, Head(events))),
                  Tail(events))

\* update_game: the events queued are drained and handled, then the missiles
\* are updated
update_game(ents, num_players, current, cam, queue) ==
    LET queue_len == Len(queue)
        updated(handled) ==
            [entities |-> update_missiles(handled.entities),
             current_player |-> handled.current_player,
             camera |-> handled.camera,
             results |-> handled.results,
             queue |-> SubSeq(queue, queue_len + 1, Len(queue))]
    IN updated(drain([entities |-> ents, num_players |-> num_players,
                      current_player |-> current, camera |-> cam, results |-> <<>>],
                     SubSeq(queue, 1, queue_len)))

\* The update callback of a host tick
UpdateGame ==
    /\ ticks < MaxTicks
    /\ \E r \in {update_game(entities, Len(players), current_player, camera, input_queue)} :
          /\ entities' = r.entities
          /\ current_player' = r.current_player
          /\ camera' = r.camera
          /\ input_queue' = r.queue
          /\ last' = [op |-> "update_game", event |-> [kind |-> "none"], result |-> Ok,
                      pre_entities |-> entities, pre_current |-> current_player,
                      queue |-> input_queue, results |-> r.results]
    /\ ticks' = ticks + 1
    /\ UNCHANGED <<players, loader, turnVars, missileVars, mapVars, probeVars>>

NextHost ==
    \/ \E event \in HostEvents : OnInput(event)
    \/ UpdateGame

SpecHost == InitHost /\ [][NextHost]_vars

\* The fire commands of the queue that fire_missile accepts while every
\* player has a ship
RECURSIVE Accepted(_)
Accepted(queue) ==
    IF queue = <<>> THEN <<>>
    ELSE IF Head(queue).kind = "FireMissile" /\ InRange(Head(queue).params)
    THEN <<Head(queue)>> \o Accepted(Tail(queue))
    ELSE Accepted(Tail(queue))

\* The sum of the pans and of the zooms of the queue
RECURSIVE CameraAfter(_, _)
CameraAfter(cam, queue) ==
    IF queue = <<>> THEN cam
    ELSE LET event == Head(queue)
             moved == IF event.kind = "PanCamera"
                      THEN [cam EXCEPT !.position = <<@[1] + event.delta[1],
                                                      @[2] + event.delta[2], @[3]>>]
                      ELSE IF event.kind = "ZoomCamera"
                      THEN [cam EXCEPT !.log_scale = @ + event.scale]
                      ELSE cam
         IN CameraAfter(moved, Tail(queue))

\* C28: the update callback handles every queued event, front first, before
\* it updates the missiles exactly once: an event that is rejected does not
\* keep the events behind it from being handled (the k-th accepted fire
\* command launches the k-th new missile, from the ship of the k-th next
\* player, in its direction), every live missile, the new ones included, gets
\* one position, and the queue is empty afterwards.
C28_QueueHandledInOrderBeforeOneUpdate ==
    [][(last'.op = "update_game" /\ ticks' = ticks + 1) =>
           LET fires == Accepted(input_queue)
               n == Len(players)
           IN /\ input_queue' = <<>>
              /\ Len(last'.results) = Len(input_queue)
              /\ \A i \in 1..Len(input_queue) :
                     (last'.results[i] = Ok) <=>
                         (input_queue[i].kind # "FireMissile"
                              \/ InRange(input_queue[i].params))
              /\ camera' = CameraAfter(camera, input_queue)
              /\ Len(entities') = Len(entities) + Len(fires)
              /\ \A k \in 1..Len(fires) :
                     LET trail == Unwrap(entities'[Len(entities) + k].missile_trail)
                         player == (Unwrap(current_player) + k - 1) % n
                         direction == IF fires[k].params.angle = Fin(0) THEN 1 ELSE -1
                     IN /\ F32ToGrid(trail.positions[1].x) =
                               ShipPosition(player) + direction * (ShipRadius + 1)
                        /\ F32ToGrid(trail.positions[1].y) = 0
                        /\ trail.positions[1].z = F32Zero
                        /\ Len(trail.positions) = 2
                        /\ trail.data_version = 1
              /\ \A i \in 1..Len(entities) :
                     IsSome(entities[i].missile_trail) =>
                         LET before == Unwrap(entities[i].missile_trail)
                             after == Unwrap(entities'[i].missile_trail)
                         IN after.data_version - before.data_version =
                                (IF F32IsPos(before.time_to_live) THEN 1 ELSE 0)]_vars

\* A rejected fire command was queued before an accepted one: the second was
\* handled, and its missile was updated once
C28_Witness ==
    /\ last.op = "update_game"
    /\ Len(last.queue) = 2
    /\ last.results = <<ErrSpeed, Ok>>
    /\ Len(entities) = Len(last.pre_entities) + 1
    /\ Unwrap(Last(entities).missile_trail).data_version = 1
    /\ input_queue = <<>>

\* Two fire commands in opposite directions were handled in the order they
\* were queued
C28_WitnessOrder ==
    /\ last.op = "update_game"
    /\ last.queue = <<FireEvent(Fin(1), Fin(3)), FireEvent(Fin(0), Fin(3))>>
    /\ last.results = <<Ok, Ok>>
    /\ Len(entities) = Len(last.pre_entities) + 2


-----------------------------------------------------------------------------
(* The asset loader and its fetches (glue/asset.rs): SpecAssets *)

Uris == {"vertex.glsl", "ship.glb"}

\* FetchResult: Ok(bytes) or Err(FetchError)
FetchResults == {"data", "error"}

\* A HashMap with one entry inserted, or replaced
MapInsert(map, key, value) ==
    [k \in DOMAIN map \cup {key} |-> IF k = key THEN value ELSE map[k]]

\* AssetLoader::new: nothing pending, nothing resolved, no callback; no
\* fetch under way, no load() and no callback call so far
InitAssets ==
    /\ GameIdle
    /\ TurnIdle
    /\ MissileIdle
    /\ MapIdle
    /\ ProbeIdle
    /\ input_queue = <<>>
    /\ loader = [pc |-> "loading", pending |-> {}, resolved |-> <<>>,
                 on_complete |-> FALSE, fetches |-> {}, loads |-> 0,
                 requested |-> {}, calls |-> <<>>, trace |-> <<>>]

\* AssetLoaderData::load: a fetch of the uri is started and the uri is
\* pending
load(l, uri) ==
    [l EXCEPT !.fetches = @ \cup {[id |-> l.loads, uri |-> uri]},
              !.loads = @ + 1,
              !.pending = @ \cup {uri},
              !.requested = @ \cup {uri},
              !.trace = Append(@, "load")]

\* AssetLoaderData::process_response: the uri is resolved; when nothing is
\* pending the resolved results are taken, and handed to the callback if
\* there is one
process_response(l, uri, result) ==
    LET still_pending == l.pending \ {uri}
        data == MapInsert(l.resolved, uri, result)
    IN IF still_pending = {}
       THEN [l EXCEPT !.pending = still_pending,
                      !.resolved = <<>>,
                      !.calls = IF l.on_complete THEN Append(@, data) ELSE @]
       ELSE [l EXCEPT !.pending = still_pending, !.resolved = data]

\* AssetLoader::and_then: the callback is kept
and_then(l) == [l EXCEPT !.on_complete = TRUE, !.trace = Append(@, "then")]

Load(uri) ==
    /\ loader.loads < MaxLoads
    /\ loader' = load(loader, uri)
    /\ UNCHANGED <<gameVars, input_queue, turnVars, missileVars, mapVars, probeVars>>

\* A fetch ends, with data or with an error: the closure of load() runs
FetchCompletes(fetch, result) ==
    /\ fetch \in loader.fetches
    /\ loader' = [process_response(loader, fetch.uri, result)
                     EXCEPT !.fetches = @ \ {fetch}, !.trace = Append(@, "done")]
    /\ UNCHANGED <<gameVars, input_queue, turnVars, missileVars, mapVars, probeVars>>

\* The page registers its callback, once
AndThen ==
    /\ ~loader.on_complete
    /\ loader' = and_then(loader)
    /\ UNCHANGED <<gameVars, input_queue, turnVars, missileVars, mapVars, probeVars>>

NextAssets ==
    \/ \E uri \in Uris : Load(uri)
    \/ \E fetch \in [id : 0..MaxLoads, uri : Uris], result \in FetchResults :
           FetchCompletes(fetch, result)
    \/ AndThen

SpecAssets == InitAssets /\ [][NextAssets]_vars

\* Something was loaded, the callback is registered and every fetch has ended
AssetsSettled ==
    /\ loader.pc = "loading"
    /\ loader.on_complete
    /\ loader.requested # {}
    /\ loader.fetches = {}

\* C29: whatever the order of the load() calls, the ends of the fetches and
\* the registration of the callback, the callback is called no more than
\* once, and once everything has ended it has been called once with a
\* result for every uri that was requested.
C29_CallbackOnceWithEveryResult ==
    loader.pc = "loading" =>
        /\ Len(loader.calls) <= 1
        /\ AssetsSettled =>
               /\ Len(loader.calls) = 1
               /\ DOMAIN loader.calls[1] = loader.requested

\* The two halves of it: the callback is never called a second time, and
\* it has been called once everything has ended
CallbackCalledAtMostOnce == loader.pc = "loading" => Len(loader.calls) <= 1

CompletionNeverLost == AssetsSettled => Len(loader.calls) >= 1

\* The order the page uses: distinct uris are loaded, the callback is
\* registered, and then the fetches end
RECURSIVE IsSorted(_)
IsSorted(trace) ==
    \/ Len(trace) <= 1
    \/ /\ \/ trace[1] = "load"
          \/ trace[1] = "then" /\ trace[2] # "load"
          \/ trace[1] = "done" /\ trace[2] = "done"
       /\ IsSorted(Tail(trace))

LoadThenRegisterThenFetch ==
    /\ IsSorted(loader.trace)
    /\ loader.loads = Cardinality(loader.requested)

\* In that order the callback is called once, when the last fetch has ended,
\* with a result for every uri, errors included
CallbackOnceInTheUsualOrder ==
    (loader.pc = "loading" /\ LoadThenRegisterThenFetch) =>
        /\ Len(loader.calls) = (IF loader.on_complete /\ loader.fetches = {}
                                   /\ loader.requested # {} THEN 1 ELSE 0)
        /\ Len(loader.calls) = 1 => DOMAIN loader.calls[1] = loader.requested

UsualOrderWitness ==
    /\ loader.pc = "loading"
    /\ LoadThenRegisterThenFetch
    /\ Len(loader.calls) = 1
    /\ loader.requested = Uris
    /\ loader.calls[1]["ship.glb"] = "error"

====
